---- MODULE Spec2Model ----
(***************************************************************************)
(* Model of the resilient chat platform's generation core:                 *)
(*   - StreamMessageUseCase.execute (application/use_cases/                 *)
(*     stream_message.py) running against a RepositoryPort and an LLMPort, *)
(*   - OpenAIProvider.generate_stream (infrastructure/llm/                  *)
(*     openai_provider.py) with its fallback chain and failure cooldown.   *)
(* Text is a sequence of characters; awaits and yields of the coroutines   *)
(* are the boundaries between actions.                                     *)
(***************************************************************************)
EXTENDS Integers, Sequences, FiniteSets, TLC

VARIABLES storage, nextId, started, uc, sse, llm, rp,
          now, model, fallback_chain, fallback_enabled, failed_models,
          failLedger, gs

vars == <<storage, nextId, started, uc, sse, llm, rp,
          now, model, fallback_chain, fallback_enabled, failed_models,
          failLedger, gs>>

ucVars == <<storage, nextId, started, uc, sse, llm, rp>>

gsVars == <<now, model, fallback_chain, fallback_enabled, failed_models,
            failLedger, gs>>

(***************************************************************************)
(* Bounds of the model.                                                    *)
(***************************************************************************)
\* characters allowed in one response (stands for the 4000 of the source)
MaxChars == 2
\* longest chunk a backend hands to the use case
MaxChunkLen == 3
\* chunks (empty ones included) pulled from the backend in one request
MaxPulls == 2
\* conversations the repository can hold
MaxConvs == 2
\* streaming requests started in one behaviour
MaxRequests == 1

(***************************************************************************)
(* Text.                                                                   *)
(***************************************************************************)
\* the characters a backend or a user can produce: a letter and a blank
Char == {"a", " "}

\* str.strip() removes these
Whitespace == {" ", "\n"}

RECURSIVE TextUpTo(_)
TextUpTo(n) ==
    IF n = 0 THEN {<<>>}
    ELSE LET shorter == TextUpTo(n - 1)
         IN  shorter \cup {Append(t, c) : t \in {s \in shorter : Len(s) = n - 1}, c \in Char}

\* the chunks a backend stream delivers: runs of letters of any length up to
\* MaxChunkLen (the empty chunk included) and a blank
Chunks == {[i \in 1..n |-> "a"] : n \in 0..MaxChunkLen} \cup {<<" ">>}

\* chunk[:n]
Prefix(chunk, n) == SubSeq(chunk, 1, IF n < Len(chunk) THEN n ELSE Len(chunk))

RECURSIVE Concat(_)
\* "".join(chunks)
Concat(chunks) ==
    IF chunks = <<>> THEN <<>> ELSE Head(chunks) \o Concat(Tail(chunks))

\* not content.strip()
IsBlank(content) == \A i \in 1..Len(content) : content[i] \in Whitespace

MAX_RESPONSE_CHARS == MaxChars

TRUNCATION_NOTICE == <<"\n", "\n", "[Resposta truncada devido ao limite de tamanho]">>

ErrorMarker(error_message) == <<"[Erro ao gerar resposta: ", error_message, "]">>

EndsWith(text, suffix) ==
    /\ Len(text) >= Len(suffix)
    /\ SubSeq(text, Len(text) - Len(suffix) + 1, Len(text)) = suffix

(***************************************************************************)
(* Domain: Message and Conversation.                                       *)
(***************************************************************************)
User == {"u1", "u2"}

Req == {"r1", "r2"}

\* an id no conversation was ever stored under; 0 stands for None
UnknownId == MaxConvs + 1

\* a constructor that validates the role only
MessageValid_RoleOnly(content, role) == role \in {"user", "assistant"}

\* Message.__post_init__: the constructor raises ValueError on blank content
MessageValid(content, role) ==
    /\ content # <<>>
    /\ ~IsBlank(content)
    /\ role \in {"user", "assistant"}

Message(content, role) == [content |-> content, role |-> role]

Conversation(user_id) == [id |-> 0, user_id |-> user_id, messages |-> <<>>]

\* Conversation.add_message
add_message(conversation, message) ==
    [conversation EXCEPT !.messages = Append(@, message)]

(***************************************************************************)
(* InMemoryRepository.                                                     *)
(***************************************************************************)
\* save that gives every conversation it is handed a new id
SaveId_AlwaysNew(conversation) == nextId

\* save: assigns an id when there is none, then stores a copy of the messages
SaveId(conversation) == IF conversation.id = 0 THEN nextId ELSE conversation.id

\* save that adds the messages it is handed to the messages already stored
SaveStorage_Appends(conversation) ==
    LET id == SaveId(conversation)
    IN  [i \in DOMAIN storage \cup {id} |->
            IF i = id
            THEN [id |-> id, user_id |-> conversation.user_id,
                  messages |-> (IF id \in DOMAIN storage
                                THEN storage[id].messages ELSE <<>>)
                               \o conversation.messages]
            ELSE storage[i]]

SaveStorage(conversation) ==
    LET id == SaveId(conversation)
    IN  [i \in DOMAIN storage \cup {id} |->
            IF i = id
            THEN [id |-> id, user_id |-> conversation.user_id,
                  messages |-> conversation.messages]
            ELSE storage[i]]

\* find_by_id: None (here <<>> is never a conversation) when absent
Found(conversation_id) == conversation_id \in DOMAIN storage

find_by_id(conversation_id) == storage[conversation_id]

(***************************************************************************)
(* StreamMessageUseCase.execute, one record per running generator.         *)
(***************************************************************************)
UcIdle ==
    [pc |-> "idle", n |-> 0, user_id |-> "u1", message_content |-> <<>>,
     conversation_id |-> 0,
     conversation |-> Conversation("u1"), base |-> 0, announced |-> 0,
     response_buffer |-> <<>>, current_length |-> 0, chunk_count |-> 0,
     response_truncated |-> FALSE,
     raised |-> "none",
     emitted |-> <<>>, pulled |-> 0, produced |-> 0,
     last |-> [chunk |-> <<>>, before |-> <<>>],
     generate_called |-> FALSE, response |-> <<>>,
     gen_failed |-> FALSE, marker_saved |-> FALSE, generate_raised |-> FALSE]

UcActive(r) ==
    uc[r].pc \notin {"idle", "done", "raised", "closed", "pmDone", "pmRaised"}

Raise(s, exception) == [s EXCEPT !.pc = "raised", !.raised = exception]

\* UcStart that creates the missing conversation under the id the caller supplied
UcStart_KeepsGivenId(r, user_id, message_content, conversation_id) ==
    /\ ~UcActive(r)
    /\ started < MaxRequests
    /\ conversation_id \in {0, UnknownId} \cup DOMAIN storage
    /\ (conversation_id \notin DOMAIN storage) => nextId <= MaxConvs
    /\ started' = started + 1
    /\ LET fresh == [UcIdle EXCEPT !.n = started + 1,
                                   !.user_id = user_id,
                                   !.message_content = message_content,
                                   !.conversation_id = conversation_id]
       IN  IF conversation_id # 0 /\ Found(conversation_id)
           THEN IF find_by_id(conversation_id).user_id # user_id
                THEN uc' = [uc EXCEPT ![r] = Raise(fresh, "RepositoryError")]
                ELSE uc' = [uc EXCEPT ![r] =
                               [fresh EXCEPT !.pc = "loaded",
                                             !.conversation = find_by_id(conversation_id),
                                             !.base = Len(find_by_id(conversation_id).messages)]]
           ELSE uc' = [uc EXCEPT ![r] =
                           [fresh EXCEPT !.pc = "loaded",
                                         !.conversation =
                                             [Conversation(user_id) EXCEPT
                                                 !.id = conversation_id]]]
    /\ UNCHANGED <<storage, nextId>>

\* lines 92-120: load or create the conversation (await find_by_id)
UcStart(r, user_id, message_content, conversation_id) ==
    /\ ~UcActive(r)
    /\ started < MaxRequests
    /\ conversation_id \in {0, UnknownId} \cup DOMAIN storage
    /\ (conversation_id \notin DOMAIN storage) => nextId <= MaxConvs
    /\ started' = started + 1
    /\ \E findOk \in BOOLEAN :
        LET fresh == [UcIdle EXCEPT !.n = started + 1,
                                    !.user_id = user_id,
                                    !.message_content = message_content,
                                    !.conversation_id = conversation_id]
        IN  IF conversation_id # 0 /\ ~findOk
            THEN uc' = [uc EXCEPT ![r] = Raise(fresh, "RepositoryError")]
            ELSE IF conversation_id # 0 /\ Found(conversation_id)
            THEN IF find_by_id(conversation_id).user_id # user_id
                 THEN uc' = [uc EXCEPT ![r] = Raise(fresh, "RepositoryError")]
                 ELSE uc' = [uc EXCEPT ![r] =
                                [fresh EXCEPT !.pc = "loaded",
                                              !.conversation = find_by_id(conversation_id),
                                              !.base = Len(find_by_id(conversation_id).messages)]]
            ELSE uc' = [uc EXCEPT ![r] =
                            [fresh EXCEPT !.pc = "loaded",
                                          !.conversation = Conversation(user_id)]]
    /\ UNCHANGED <<storage, nextId>>

\* UcSaveUser with the save left for later: the id is handed out unsaved
UcSaveUser_Unsaved(r) ==
    LET s == uc[r]
        conversation == add_message(s.conversation, Message(s.message_content, "user"))
    IN  /\ s.pc = "loaded"
        /\ uc' = [uc EXCEPT ![r] =
                    [s EXCEPT !.conversation =
                                [conversation EXCEPT !.id = SaveId(conversation)],
                              !.announced = SaveId(conversation),
                              !.pc = "announced"]]
        /\ nextId' = IF conversation.id = 0 THEN nextId + 1 ELSE nextId
        /\ UNCHANGED <<storage, started>>

\* UcSaveUser that yields the conversation id before it awaits the save
UcSaveUser_AnnouncesFirst(r) ==
    LET s == uc[r]
    IN  /\ s.pc = "loaded"
        /\ IF ~MessageValid(s.message_content, "user")
           THEN /\ uc' = [uc EXCEPT ![r] = Raise(s, "ValueError")]
                /\ UNCHANGED <<storage, nextId>>
           ELSE LET conversation ==
                        add_message(s.conversation, Message(s.message_content, "user"))
                IN  \E saveOk \in BOOLEAN :
                        IF saveOk
                        THEN /\ storage' = SaveStorage(conversation)
                             /\ nextId' = IF conversation.id = 0 THEN nextId + 1 ELSE nextId
                             /\ uc' = [uc EXCEPT ![r] =
                                        [s EXCEPT !.conversation =
                                                    [conversation EXCEPT !.id = SaveId(conversation)],
                                                  !.announced = SaveId(conversation),
                                                  !.pc = "announced"]]
                        ELSE /\ uc' = [uc EXCEPT ![r] =
                                        Raise([s EXCEPT !.conversation = conversation,
                                                        !.announced = SaveId(conversation)],
                                              "RepositoryError")]
                             /\ UNCHANGED <<storage, nextId>>
        /\ UNCHANGED started

\* lines 122-129: add the user message, await save, yield the conversation id
UcSaveUser(r) ==
    LET s == uc[r]
    IN  /\ s.pc = "loaded"
        /\ IF ~MessageValid(s.message_content, "user")
           THEN /\ uc' = [uc EXCEPT ![r] = Raise(s, "ValueError")]
                /\ UNCHANGED <<storage, nextId>>
           ELSE LET conversation ==
                        add_message(s.conversation, Message(s.message_content, "user"))
                IN  \E saveOk \in BOOLEAN :
                        IF saveOk
                        THEN /\ storage' = SaveStorage(conversation)
                             /\ nextId' = IF conversation.id = 0 THEN nextId + 1 ELSE nextId
                             /\ uc' = [uc EXCEPT ![r] =
                                        [s EXCEPT !.conversation =
                                                    [conversation EXCEPT !.id = SaveId(conversation)],
                                                  !.announced = SaveId(conversation),
                                                  !.pc = "announced"]]
                        ELSE /\ uc' = [uc EXCEPT ![r] =
                                        Raise([s EXCEPT !.conversation = conversation],
                                              "RepositoryError")]
                             /\ UNCHANGED <<storage, nextId>>
        /\ UNCHANGED started

\* OnChunk that forwards the crossing chunk whole
OnChunk_NoCut(s, chunk) ==
    IF chunk = <<>>
    THEN [s EXCEPT !.pc = "pulling"]
    ELSE LET current_length == s.current_length + Len(chunk)
             written == [s EXCEPT !.current_length = current_length,
                                  !.response_buffer = @ \o chunk,
                                  !.chunk_count = @ + 1,
                                  !.emitted = Append(@, chunk)]
         IN  IF current_length > MAX_RESPONSE_CHARS
             THEN [written EXCEPT !.response_truncated = TRUE, !.pc = "yieldedTrunc"]
             ELSE [written EXCEPT !.pc = "yielded"]

\* OnChunk that drops the crossing chunk instead of cutting it
OnChunk_DropCrossing(s, chunk) ==
    IF chunk = <<>>
    THEN [s EXCEPT !.pc = "pulling"]
    ELSE LET current_length == s.current_length + Len(chunk)
         IN  IF current_length > MAX_RESPONSE_CHARS
             THEN [s EXCEPT !.current_length = current_length,
                            !.response_truncated = TRUE,
                            !.pc = "finalize"]
             ELSE [s EXCEPT !.current_length = current_length,
                            !.response_buffer = @ \o chunk,
                            !.chunk_count = @ + 1,
                            !.emitted = Append(@, chunk),
                            !.pc = "yielded"]

\* OnChunk that buffers the cut chunk and yields the chunk as it arrived
OnChunk_YieldsUncut(s, chunk) ==
    IF chunk = <<>>
    THEN [s EXCEPT !.pc = "pulling"]
    ELSE LET current_length == s.current_length + Len(chunk)
             remaining == MAX_RESPONSE_CHARS - s.current_length
         IN  IF current_length > MAX_RESPONSE_CHARS
             THEN IF remaining > 0
                  THEN [s EXCEPT !.current_length = current_length,
                                 !.response_truncated = TRUE,
                                 !.response_buffer = @ \o Prefix(chunk, remaining),
                                 !.chunk_count = @ + 1,
                                 !.emitted = Append(@, chunk),
                                 !.pc = "yieldedTrunc"]
                  ELSE [s EXCEPT !.current_length = current_length,
                                 !.response_truncated = TRUE,
                                 !.pc = "finalize"]
             ELSE [s EXCEPT !.current_length = current_length,
                            !.response_buffer = @ \o chunk,
                            !.chunk_count = @ + 1,
                            !.emitted = Append(@, chunk),
                            !.pc = "yielded"]

\* lines 150-175: the body of the async for, up to its yield or break
OnChunk(s, chunk) ==
    IF chunk = <<>>
        THEN [s EXCEPT !.pc = "pulling"]
        ELSE LET chunk_length == Len(chunk)
                 current_length == s.current_length + chunk_length
             IN  IF current_length > MAX_RESPONSE_CHARS
                 THEN LET remaining == MAX_RESPONSE_CHARS - (current_length - chunk_length)
                          truncated_chunk == Prefix(chunk, remaining)
                          seen == [s EXCEPT !.current_length = current_length,
                                                  !.response_truncated = TRUE]
                      IN  IF remaining > 0
                          THEN [seen EXCEPT
                                  !.response_buffer = @ \o truncated_chunk,
                                  !.chunk_count = @ + 1,
                                  !.emitted = Append(@, truncated_chunk),
                                  !.pc = "yieldedTrunc"]
                          ELSE [seen EXCEPT !.pc = "finalize"]
                 ELSE [s EXCEPT
                          !.current_length = current_length,
                          !.response_buffer = @ \o chunk,
                          !.chunk_count = @ + 1,
                          !.emitted = Append(@, chunk),
                          !.pc = "yielded"]

UcPulling(r) == uc[r].pc \in {"announced", "yielded", "pulling"}

\* UcChunk that checkpoints the partial assistant text after every chunk
UcChunk_SaveEach(r, chunk) ==
    LET t == OnChunk(uc[r], chunk)
        partial == add_message(t.conversation, Message(t.response_buffer, "assistant"))
    IN  /\ UcPulling(r)
        /\ uc[r].pulled < MaxPulls
        /\ uc' = [uc EXCEPT ![r] =
                    [t EXCEPT !.pulled = @ + 1,
                              !.produced = @ + Len(chunk),
                              !.last = [chunk |-> chunk, before |-> uc[r].emitted]]]
        /\ storage' = IF MessageValid(t.response_buffer, "assistant")
                      THEN SaveStorage(partial) ELSE storage
        /\ UNCHANGED <<nextId, started>>

\* line 149: the backend stream hands over its next chunk
UcChunk(r, chunk) ==
    /\ UcPulling(r)
    /\ uc[r].pulled < MaxPulls
    /\ uc' = [uc EXCEPT ![r] =
                [OnChunk(uc[r], chunk) EXCEPT
                    !.pulled = @ + 1,
                    !.produced = @ + Len(chunk),
                    !.last = [chunk |-> chunk, before |-> uc[r].emitted]]]
    /\ UNCHANGED <<storage, nextId, started>>

\* UcBreak without the break: the loop goes on after the truncated chunk
UcBreak_Continue(r) ==
    /\ uc[r].pc = "yieldedTrunc"
    /\ uc' = [uc EXCEPT ![r].pc = "pulling"]
    /\ UNCHANGED <<storage, nextId, started>>

\* line 171: the generator is resumed after the truncated chunk and breaks
UcBreak(r) ==
    /\ uc[r].pc = "yieldedTrunc"
    /\ uc' = [uc EXCEPT ![r].pc = "finalize"]
    /\ UNCHANGED <<storage, nextId, started>>

\* line 149: the backend stream ends (StopAsyncIteration)
UcStreamEnd(r) ==
    /\ UcPulling(r)
    /\ uc' = [uc EXCEPT ![r].pc = "finalize"]
    /\ UNCHANGED <<storage, nextId, started>>

\* UcStreamError that lets the failure of the marker's save reach the caller
UcStreamError_RaisesSaveError(r) ==
    LET s == [uc[r] EXCEPT !.gen_failed = TRUE]
        error_msg == Message(ErrorMarker("error"), "assistant")
        conversation == add_message(s.conversation, error_msg)
    IN  /\ UcPulling(r)
        /\ \E saveOk \in BOOLEAN :
            IF saveOk
            THEN /\ storage' = SaveStorage(conversation)
                 /\ uc' = [uc EXCEPT ![r] =
                            Raise([s EXCEPT !.conversation = conversation,
                                            !.marker_saved = TRUE], "LLMError")]
            ELSE /\ uc' = [uc EXCEPT ![r] =
                            Raise([s EXCEPT !.conversation = conversation],
                                  "RepositoryError")]
                 /\ UNCHANGED storage
        /\ UNCHANGED <<nextId, started>>

\* lines 191-228: the backend stream raises; save the error marker, raise LLMError
UcStreamError(r) ==
    LET s == [uc[r] EXCEPT !.gen_failed = TRUE]
        error_msg == Message(ErrorMarker("error"), "assistant")
        conversation == add_message(s.conversation, error_msg)
    IN  /\ UcPulling(r)
        /\ \E saveOk \in BOOLEAN :
            IF saveOk
            THEN /\ storage' = SaveStorage(conversation)
                 /\ uc' = [uc EXCEPT ![r] =
                            Raise([s EXCEPT !.conversation = conversation,
                                            !.marker_saved = TRUE], "LLMError")]
            ELSE /\ uc' = [uc EXCEPT ![r] =
                            Raise([s EXCEPT !.conversation = conversation], "LLMError")]
                 /\ UNCHANGED storage
        /\ UNCHANGED <<nextId, started>>

\* FullResponse that appends the notice to every response
FullResponse_AlwaysNotice(s) == s.response_buffer \o TRUNCATION_NOTICE

\* lines 233-237: the text of the assistant message
FullResponse(s) ==
    IF s.response_truncated
    THEN s.response_buffer \o TRUNCATION_NOTICE
    ELSE s.response_buffer

\* lines 230-259: after the loop, save the assistant message
UcFinalize(r) ==
    LET s == uc[r]
        full_response == FullResponse(s)
        conversation == add_message(s.conversation, Message(full_response, "assistant"))
    IN  /\ s.pc = "finalize"
        /\ IF s.chunk_count > 0
           THEN IF ~MessageValid(full_response, "assistant")
                THEN /\ uc' = [uc EXCEPT ![r] = Raise(s, "ValueError")]
                     /\ UNCHANGED storage
                ELSE \E saveOk \in BOOLEAN :
                        IF saveOk
                        THEN /\ storage' = SaveStorage(conversation)
                             /\ uc' = [uc EXCEPT ![r] =
                                        [s EXCEPT !.conversation = conversation,
                                                  !.pc = "done"]]
                        ELSE /\ uc' = [uc EXCEPT ![r] =
                                        Raise([s EXCEPT !.conversation = conversation],
                                              "RepositoryError")]
                             /\ UNCHANGED storage
           ELSE /\ uc' = [uc EXCEPT ![r].pc = "done"]
                /\ UNCHANGED storage
        /\ UNCHANGED <<nextId, started>>

\* the consumer closes the generator while it is suspended at a yield:
\* GeneratorExit is not an Exception, so no except clause of execute runs
UcClose(r) ==
    /\ uc[r].pc \in {"announced", "yielded", "yieldedTrunc"}
    /\ uc' = [uc EXCEPT ![r].pc = "closed"]
    /\ UNCHANGED <<storage, nextId, started>>

(***************************************************************************)
(* ProcessMessageUseCase.execute (the non-streaming path), in the same     *)
(* records: pc is pmGenerating, pmDone or pmRaised, `announced` holds the  *)
(* conversation_id of the returned dictionary.                             *)
(***************************************************************************)
PmRaise(s, exception) == [s EXCEPT !.pc = "pmRaised", !.raised = exception]

\* lines 98-131: await find_by_id, take the conversation found or create one,
\* add the user message, call llm.generate
PmStart(r, user_id, message_content, conversation_id) ==
    /\ ~UcActive(r)
    /\ started < MaxRequests
    /\ conversation_id \in {0, UnknownId} \cup DOMAIN storage
    /\ (conversation_id \notin DOMAIN storage) => nextId <= MaxConvs
    /\ started' = started + 1
    /\ \E findOk \in BOOLEAN :
        LET fresh == [UcIdle EXCEPT !.n = started + 1,
                                    !.user_id = user_id,
                                    !.message_content = message_content,
                                    !.conversation_id = conversation_id]
            loaded == IF conversation_id # 0 /\ Found(conversation_id)
                      THEN [fresh EXCEPT !.conversation = find_by_id(conversation_id),
                                         !.base = Len(find_by_id(conversation_id).messages)]
                      ELSE [fresh EXCEPT !.conversation = Conversation(user_id)]
        IN  IF conversation_id # 0 /\ ~findOk
            THEN uc' = [uc EXCEPT ![r] = PmRaise(fresh, "RepositoryError")]
            ELSE IF ~MessageValid(message_content, "user")
            THEN uc' = [uc EXCEPT ![r] = PmRaise(loaded, "ValueError")]
            ELSE uc' = [uc EXCEPT ![r] =
                           [loaded EXCEPT
                               !.pc = "pmGenerating",
                               !.generate_called = TRUE,
                               !.conversation =
                                   add_message(@, Message(message_content, "user"))]]
    /\ UNCHANGED <<storage, nextId>>

\* lines 131-156: llm.generate returns response_content: add the assistant
\* message, await save, return the dictionary
PmGenerated(r, response_content) ==
    LET s == uc[r]
    IN  /\ s.pc = "pmGenerating"
        /\ IF ~MessageValid(response_content, "assistant")
           THEN /\ uc' = [uc EXCEPT ![r] = PmRaise(s, "ValueError")]
                /\ UNCHANGED <<storage, nextId>>
           ELSE LET conversation ==
                        add_message(s.conversation, Message(response_content, "assistant"))
                IN  \E saveOk \in BOOLEAN :
                        IF saveOk
                        THEN /\ storage' = SaveStorage(conversation)
                             /\ nextId' = IF conversation.id = 0 THEN nextId + 1 ELSE nextId
                             /\ uc' = [uc EXCEPT ![r] =
                                        [s EXCEPT !.conversation =
                                                    [conversation EXCEPT !.id = SaveId(conversation)],
                                                  !.announced = SaveId(conversation),
                                                  !.response = response_content,
                                                  !.pc = "pmDone"]]
                        ELSE /\ uc' = [uc EXCEPT ![r] =
                                        PmRaise([s EXCEPT !.conversation = conversation],
                                                "RepositoryError")]
                             /\ UNCHANGED <<storage, nextId>>
        /\ UNCHANGED started

\* PmGenerateError that checkpoints the user message before it raises, as the
\* streaming path does
PmGenerateError_SavesUser(r) ==
    /\ uc[r].pc = "pmGenerating"
    /\ uc' = [uc EXCEPT ![r] =
                PmRaise([uc[r] EXCEPT !.generate_raised = TRUE], "LLMError")]
    /\ storage' = SaveStorage(uc[r].conversation)
    /\ nextId' = IF uc[r].conversation.id = 0 THEN nextId + 1 ELSE nextId
    /\ UNCHANGED started

\* lines 139-148: llm.generate raises: LLMError, nothing is saved
PmGenerateError(r) ==
    /\ uc[r].pc = "pmGenerating"
    /\ uc' = [uc EXCEPT ![r] =
                PmRaise([uc[r] EXCEPT !.generate_raised = TRUE], "LLMError")]
    /\ UNCHANGED <<storage, nextId, started>>

(***************************************************************************)
(* _format_sse_stream (api/routes/chat_stream_routes.py): the generator    *)
(* that consumes execute and sends one SSE event per yield.  An event is   *)
(* [type, data]: "metadata" and "done" carry a conversation id, "chunk"    *)
(* the text, "error" the error type.                                       *)
(***************************************************************************)
\* the marker execute puts in front of the conversation id it yields; it
\* counts as one character of text
CONVERSATION_ID_PREFIX == "__CONVERSATION_ID__:"

\* str(saved_conversation.id); None and "" are <<>>
IdText(id) == IF id = 0 THEN <<>> ELSE <<ToString(id)>>

\* line 49: chunk.startswith("__CONVERSATION_ID__:")
IsMetadata(chunk) == chunk # <<>> /\ chunk[1] = CONVERSATION_ID_PREFIX

\* line 50: chunk.replace("__CONVERSATION_ID__:", "")
WithoutPrefix(chunk) == SelectSeq(chunk, LAMBDA c : c # CONVERSATION_ID_PREFIX)

SseIdle == [events |-> <<>>, final_conversation_id |-> <<>>]

\* line 40: final_conversation_id = conversation_id
SseOpened(conversation_id) ==
    [events |-> <<>>, final_conversation_id |-> IdText(conversation_id)]

\* lines 48-58: one item yielded by execute is sent as a metadata or a chunk event
SseItem(f, chunk) ==
    IF IsMetadata(chunk)
    THEN [f EXCEPT !.final_conversation_id = WithoutPrefix(chunk),
                   !.events = Append(@, [type |-> "metadata",
                                         data |-> WithoutPrefix(chunk)])]
    ELSE [f EXCEPT !.events = Append(@, [type |-> "chunk", data |-> chunk])]

\* lines 60-66: execute has ended; {"done": true} with the conversation id when
\* final_conversation_id is not empty
SseDone(f) ==
    [f EXCEPT !.events = Append(@, [type |-> "done",
                                    data |-> f.final_conversation_id])]

\* lines 67-78: execute has raised
SseError(f, exception) ==
    [f EXCEPT !.events =
        Append(@, [type |-> "error",
                   data |-> <<CASE exception = "LLMError" -> "llm_error"
                                [] exception = "RepositoryError" -> "repository_error"
                                [] OTHER -> "unexpected_error">>])]

\* lines 43-78: what the generator sends for the step execute has just taken
\* (old and new are the states of execute before and after the step)
SseForward(f, old, new) ==
    IF new.pc = "raised" THEN SseError(f, new.raised)
    ELSE IF new.pc = "done" THEN SseDone(f)
    ELSE IF new.pc = "announced"
         THEN SseItem(f, <<CONVERSATION_ID_PREFIX>> \o IdText(new.announced))
    ELSE IF Len(new.emitted) > Len(old.emitted)
         THEN SseItem(f, new.emitted[Len(new.emitted)])
    ELSE f

\* the chunks a backend stream delivers to a streaming response: those of Chunks
\* up to one character and text that begins with the marker
SseChunks ==
    {c \in Chunks : Len(c) <= 1}
        \cup {<<CONVERSATION_ID_PREFIX>>, <<CONVERSATION_ID_PREFIX, "a">>}

\* POST /chat/message/stream: the response generator makes its first pull
SseStart(r, user_id, message_content, conversation_id) ==
    /\ UcStart(r, user_id, message_content, conversation_id)
    /\ sse' = [sse EXCEPT ![r] =
                 SseForward(SseOpened(conversation_id), uc[r], uc'[r])]

\* the response generator is running and execute takes its next step
SseStep(r) ==
    /\ \/ UcSaveUser(r)
       \/ \E chunk \in SseChunks : UcChunk(r, chunk)
       \/ UcBreak(r)
       \/ UcStreamEnd(r)
       \/ UcStreamError(r)
       \/ UcFinalize(r)
    /\ sse' = [sse EXCEPT ![r] = SseForward(@, uc[r], uc'[r])]

\* the client disconnects: GeneratorExit at the yield of line 53 or 58
SseClose(r) ==
    /\ UcClose(r)
    /\ UNCHANGED sse

(***************************************************************************)
(* The backends create_llm_provider can select (llm/factory.py) and what   *)
(* their generate_stream does when the service behind them is healthy.     *)
(***************************************************************************)
\* settings.llm_provider: 'openai', 'bedrock', 'mock'
Providers == {"openai", "bedrock", "mock"}

\* the class defines generate_stream as an async generator: OpenAIProvider and
\* BedrockProvider do, MockProvider defines generate only and inherits the
\* coroutine stub of LLMPort
DefinesGenerateStream(provider) == provider \in {"openai", "bedrock"}

\* the chunks of a healthy backend: text, never empty or blank
HealthyChunks == {[i \in 1..n |-> "a"] : n \in 1..MaxChunkLen}

\* line 149 with a healthy backend: the stream hands over a chunk
BkChunk(r, chunk) ==
    /\ DefinesGenerateStream(llm)
    /\ UcChunk(r, chunk)

\* line 149 with a healthy backend: the stream ends after its chunks
BkStreamEnd(r) ==
    /\ DefinesGenerateStream(llm)
    /\ uc[r].pulled > 0
    /\ UcStreamEnd(r)

\* line 149 with the stub of LLMPort: generate_stream(message) is a coroutine,
\* 'async for' raises TypeError inside the try of line 145
BkNotIterable(r) ==
    /\ ~DefinesGenerateStream(llm)
    /\ uc[r].pc = "announced"
    /\ UcStreamError(r)

(***************************************************************************)
(* The implementations of RepositoryPort: InMemoryRepository ("memory"),   *)
(* FakeRepository of the tests ("fake") and PostgresRepository             *)
(* ("postgres"), driven directly by holders of Conversation objects.       *)
(* Messages carry the timestamp Message.__post_init__ gives them.          *)
(***************************************************************************)
\* messages created in one behaviour
MaxAdds == 2

Repositories == {"memory", "fake", "postgres"}

\* Message(content='a', role=role) created at instant t
StampedMessage(role, t) == [content |-> <<"a">>, role |-> role, timestamp |-> t]

\* rp: the implementation, the clock of the timestamps, the Conversation object
\* each holder has, and the last operation with its result
RpIdle(kind) ==
    [kind |-> kind, clock |-> 1,
     held |-> [h \in Req |-> Conversation("u1")],
     last |-> [op |-> "none", h |-> "r1", id |-> 0, ok |-> FALSE]]

\* PostgresRepository.save that inserts every message it is handed
PgNewMessages_All(existing, messages) == messages

\* postgres_repository.py lines 131-150: the messages of the conversation whose
\* (content, role, timestamp) is not among the rows already stored
PgNewMessages(existing, messages) ==
    SelectSeq(messages, LAMBDA m : \A k \in 1..Len(existing) : existing[k] # m)

\* postgres_repository.py lines 95-105: an id that is set must be stored
PgCanSave(conversation) == conversation.id = 0 \/ Found(conversation.id)

\* postgres_repository.py lines 93-159: a new row for a new conversation, and
\* rows for the new messages after the sequence numbers already used
PgSaveStorage(conversation) ==
    LET id == SaveId(conversation)
        known == id \in DOMAIN storage
        existing == IF known THEN storage[id].messages ELSE <<>>
    IN  [i \in DOMAIN storage \cup {id} |->
            IF i = id
            THEN [id |-> id,
                  user_id |-> IF known THEN storage[id].user_id
                              ELSE conversation.user_id,
                  messages |-> existing \o PgNewMessages(existing, conversation.messages)]
            ELSE storage[i]]

\* save of the implementation `kind` succeeds on this conversation
CanSave(kind, conversation) == kind = "postgres" => PgCanSave(conversation)

\* the storage after save of the implementation `kind`; FakeRepository (fakes.py
\* lines 72-90) stores under the id as InMemoryRepository does
RepoSaveStorage(kind, conversation) ==
    IF kind = "postgres" THEN PgSaveStorage(conversation)
    ELSE SaveStorage(conversation)

\* delete: the storage without the id (repository.py lines 116-119,
\* fakes.py lines 133-136, postgres_repository.py lines 226-238)
DeleteStorage(conversation_id) ==
    [i \in DOMAIN storage \ {conversation_id} |-> storage[i]]

\* a holder creates Conversation(user_id=user_id)
RpNew(h, user_id) ==
    /\ rp' = [rp EXCEPT !.held[h] = Conversation(user_id)]
    /\ rp.held[h] # Conversation(user_id)
    /\ UNCHANGED <<storage, nextId>>

\* FakeRepository keeps and hands out the caller's object itself (fakes.py
\* lines 89 and 103): there, conversations with the same id are one object
SameObject(kind, a, b) == kind = "fake" /\ a.id # 0 /\ a.id = b.id

\* message.py line 34: the instant datetime.utcnow() gives the next message,
\* which may be the instant it gave the message before
Instants(clock) == {t \in {clock - 1, clock} : t >= 1}

\* a holder adds a message to its conversation
RpAdd(h, role, t) ==
    LET conversation == add_message(rp.held[h], StampedMessage(role, t))
    IN  /\ rp.clock <= MaxAdds
        /\ rp' = [rp EXCEPT !.held = [x \in Req |->
                                        IF x = h \/ SameObject(rp.kind, @[x], @[h])
                                        THEN conversation ELSE @[x]],
                             !.clock = @ + 1]
        /\ storage' = [i \in DOMAIN storage |->
                          IF SameObject(rp.kind, storage[i], rp.held[h])
                          THEN conversation ELSE storage[i]]
        /\ UNCHANGED nextId

\* await repository.save(conversation)
RpSave(h) ==
    LET conversation == rp.held[h]
        id == SaveId(conversation)
    IN  /\ conversation.id = 0 => nextId <= MaxConvs
        /\ IF CanSave(rp.kind, conversation)
           THEN /\ storage' = RepoSaveStorage(rp.kind, conversation)
                /\ nextId' = IF conversation.id = 0 THEN nextId + 1 ELSE nextId
                /\ rp' = [rp EXCEPT !.held[h].id = id,
                                     !.last = [op |-> "save", h |-> h, id |-> id,
                                               ok |-> TRUE]]
           ELSE /\ rp' = [rp EXCEPT !.last = [op |-> "save", h |-> h,
                                               id |-> conversation.id, ok |-> FALSE]]
                /\ UNCHANGED <<storage, nextId>>

\* await repository.find_by_id(conversation_id); the holder keeps what it gets
RpFind(h, conversation_id) ==
    /\ rp' = [rp EXCEPT !.held[h] = IF Found(conversation_id)
                                     THEN find_by_id(conversation_id) ELSE @,
                         !.last = [op |-> "find", h |-> h, id |-> conversation_id,
                                   ok |-> Found(conversation_id)]]
    /\ UNCHANGED <<storage, nextId>>

\* await repository.delete(conversation_id)
RpDelete(conversation_id) ==
    /\ storage' = DeleteStorage(conversation_id)
    /\ rp' = [rp EXCEPT !.last = [op |-> "delete", h |-> "r1", id |-> conversation_id,
                                   ok |-> Found(conversation_id)]]
    /\ UNCHANGED nextId

(***************************************************************************)
(* OpenAIProvider: configuration, ProviderState (failed_models), chain.    *)
(***************************************************************************)
\* seconds a failed model is skipped (stands for the 300 of the source)
Cooldown == 2
\* last instant of the clock
MaxTime == 2
\* chunks one native stream can deliver
MaxNative == 1
\* longest single-shot response
MaxGenLen == 3
\* characters per simulated chunk (stands for the 20 of the source)
SimChunkSize == 2

Call == {"A", "B"}

failure_cooldown == Cooldown

chunk_size == SimChunkSize

\* "gpt-5" in name, name.startswith("gpt-5")
IsGpt5(name) == name \in {"gpt-5", "gpt-5-nano", "gpt-5-mini"}

\* OpenAIProvider._get_fallback_chain
get_fallback_chain(primary_model) ==
    CASE primary_model = "gpt-5-nano" ->
            <<"gpt-5-nano", "gpt-5-mini", "gpt-4", "gpt-3.5-turbo">>
      [] primary_model = "gpt-5-mini" -> <<"gpt-5-mini", "gpt-4", "gpt-3.5-turbo">>
      [] primary_model = "gpt-5" -> <<"gpt-5", "gpt-4", "gpt-3.5-turbo">>
      [] primary_model = "gpt-4" -> <<"gpt-4", "gpt-3.5-turbo">>
      [] primary_model = "gpt-3.5-turbo" -> <<"gpt-3.5-turbo">>
      [] OTHER -> <<primary_model>>

\* the constructor arguments the model explores: (model, fallback_chain)
\* with <<>> for "no chain given"
Configurations ==
    { <<"gpt-5", <<>>>>,
      <<"gpt-4", <<>>>>,
      <<"gpt-3.5-turbo", <<>>>>,
      <<"gpt-4", <<"gpt-3.5-turbo", "gpt-4", "gpt-3.5-turbo">>>> }

InSeq(x, seq) == \E i \in 1..Len(seq) : seq[i] = x

RECURSIVE AppendNew(_, _)
\* lines 518-520: append the configured models that are not yet in the chain
AppendNew(chain, more) ==
    IF more = <<>> THEN chain
    ELSE IF Head(more) # model /\ ~InSeq(Head(more), chain)
         THEN AppendNew(Append(chain, Head(more)), Tail(more))
         ELSE AppendNew(chain, Tail(more))

\* lines 515-527: the chain of one generate_stream call
OptimizedChain ==
    LET configured == AppendNew(<<model>>, fallback_chain)
        with4 == IF IsGpt5(model) /\ ~InSeq("gpt-4", configured)
                 THEN Append(configured, "gpt-4") ELSE configured
    IN  IF IsGpt5(model) /\ ~InSeq("gpt-3.5-turbo", with4)
        THEN Append(with4, "gpt-3.5-turbo") ELSE with4

\* _should_skip_model that never skips
should_skip_model_Never(failed, name) == FALSE

\* _should_skip_model that forgets the cooldown: a failed model stays skipped
should_skip_model_NoExpiry(failed, name) ==
    fallback_enabled /\ name \in DOMAIN failed

\* OpenAIProvider._should_skip_model, reading the dict `failed` at time `now`
should_skip_model(failed, name) ==
    IF ~fallback_enabled THEN FALSE
    ELSE /\ name \in DOMAIN failed
         /\ now - failed[name] < failure_cooldown

\* _mark_model_failed that keeps the instant of the first failure on record
mark_model_failed_KeepsFirst(failed, name) ==
    [m \in DOMAIN failed \cup {name} |-> IF m \in DOMAIN failed THEN failed[m] ELSE now]

\* OpenAIProvider._mark_model_failed: failed_models[model] = time.time()
mark_model_failed(failed, name) ==
    [m \in DOMAIN failed \cup {name} |-> IF m = name THEN now ELSE failed[m]]

\* failed_models.pop(model, None)
clear_failure(failed, name) ==
    [m \in DOMAIN failed \ {name} |-> failed[m]]

RECURSIVE NextIndex(_, _, _)
\* lines 532-535: the first model at or after position i that is not skipped
NextIndex(chain, i, failed) ==
    IF i > Len(chain) THEN i
    ELSE IF should_skip_model(failed, chain[i]) THEN NextIndex(chain, i + 1, failed)
    ELSE i

\* the texts a single-shot generate call returns: "", "a", "a ", "a a", ...
Responses ==
    {[i \in 1..n |-> IF i % 2 = 1 THEN "a" ELSE " "] : n \in 0..MaxGenLen}

RECURSIVE SimChunks(_)
\* lines 477-478: full_response[i:i + chunk_size] for i in range(0, len, chunk_size)
SimChunks(full_response) ==
    IF full_response = <<>> THEN <<>>
    ELSE IF Len(full_response) <= chunk_size THEN <<full_response>>
    ELSE <<SubSeq(full_response, 1, chunk_size)>>
         \o SimChunks(SubSeq(full_response, chunk_size + 1, Len(full_response)))

(***************************************************************************)
(* OpenAIProvider.generate_stream, one record per running generator.       *)
(***************************************************************************)
GsIdle ==
    [pc |-> "idle", chain |-> <<>>, idx |-> 0, chunks_yielded |-> 0,
     pending |-> <<>>, last_error |-> "none",
     attempts |-> <<>>, skipped |-> {}, coolAtStart |-> FALSE,
     succeeded |-> "none", error_models |-> <<>>, out |-> <<>>,
     response |-> <<>>, emitted |-> <<>>]

GsActive(c) == gs[c].pc \in {"native", "single", "sim"}

\* the model of the attempt in progress
Current(g) == g.chain[g.idx]

RECURSIVE AttemptedModels(_)
\* the models a log of attempts names, in the order of their native attempts
AttemptedModels(attempts) ==
    IF attempts = <<>> THEN <<>>
    ELSE LET rest == AttemptedModels(Tail(attempts))
         IN  IF Head(attempts).kind = "native"
             THEN <<Head(attempts).model>> \o rest ELSE rest

\* an "All models failed" text that names the models the call attempted
AllModelsFailed_Attempted(g) == AttemptedModels(g.attempts)

\* lines 579-580: the models named by "All models failed: ...", which is
\* ', '.join(optimized_chain)
AllModelsFailed(g) == g.chain

\* lines 532-538 and 577-581: skip the models in cooldown, then start the native
\* attempt on the first one left, or raise "All models failed" when none is
Select(g, i, failed) ==
    LET j == NextIndex(g.chain, i, failed)
        passed == [g EXCEPT !.skipped = @ \cup {g.chain[k] : k \in i..(j - 1)}]
    IN  IF j <= Len(g.chain)
        THEN [passed EXCEPT !.pc = "native", !.idx = j, !.chunks_yielded = 0,
                            !.attempts = Append(@, [model |-> g.chain[j],
                                                    kind |-> "native"])]
        ELSE [passed EXCEPT !.pc = "raised", !.idx = j,
                            !.error_models = AllModelsFailed(passed)]

\* lines 502-538: the call starts and runs up to its first await
GsStart(c) ==
    /\ ~GsActive(c)
    /\ IF ~fallback_enabled
       THEN gs' = [gs EXCEPT ![c] =
                    [GsIdle EXCEPT !.pc = "native", !.chain = <<model>>, !.idx = 1,
                                   !.attempts = <<[model |-> model, kind |-> "native"]>>]]
       ELSE LET chain == OptimizedChain
            IN  gs' = [gs EXCEPT ![c] =
                        Select([GsIdle EXCEPT
                                  !.chain = chain,
                                  !.coolAtStart =
                                      \A k \in 1..Len(chain) :
                                          should_skip_model(failed_models, chain[k])],
                               1, failed_models)]
    /\ UNCHANGED <<now, model, fallback_chain, fallback_enabled, failed_models,
                   failLedger>>

\* lines 542-543 (and 335, 363): the native stream delivers a chunk, which is yielded
GsNativeChunk(c) ==
    /\ gs[c].pc = "native"
    /\ gs[c].chunks_yielded < MaxNative
    /\ gs' = [gs EXCEPT ![c].chunks_yielded = @ + 1,
                         ![c].out = Append(@, [model |-> Current(gs[c]),
                                               kind |-> "native"])]
    /\ UNCHANGED <<now, model, fallback_chain, fallback_enabled, failed_models,
                   failLedger>>

\* NativeFailed that gives up on the model at once and moves to the next one
NativeFailed_SkipSingle(g) ==
    IF fallback_enabled
    THEN Select([g EXCEPT !.last_error = Current(g)], g.idx + 1, failed_models)
    ELSE [g EXCEPT !.pc = "raised", !.last_error = Current(g)]

\* NativeFailed that starts the single-shot attempt whether fallback is enabled or not
NativeFailed_AlwaysSingle(g) ==
    [g EXCEPT !.pc = "single",
              !.attempts = Append(@, [model |-> Current(g), kind |-> "single"])]

\* NativeFailed that opens the native stream of the same model once more
NativeFailed_Retry(g) ==
    IF fallback_enabled
    THEN [g EXCEPT !.chunks_yielded = 0,
                   !.attempts = Append(@, [model |-> Current(g), kind |-> "native"])]
    ELSE [g EXCEPT !.pc = "raised", !.last_error = Current(g)]

\* lines 547-559: the native attempt failed; with fallback the single-shot
\* generate call on the same model is issued at once
NativeFailed(g) ==
    IF fallback_enabled
    THEN [g EXCEPT !.pc = "single",
                   !.attempts = Append(@, [model |-> Current(g), kind |-> "single"])]
    ELSE [g EXCEPT !.pc = "raised", !.last_error = Current(g)]

\* GsNativeError that records the model as failed as soon as the native attempt fails
GsNativeError_Marks(c) ==
    /\ gs[c].pc = "native"
    /\ gs' = [gs EXCEPT ![c] = NativeFailed(gs[c])]
    /\ failed_models' = (IF fallback_enabled
                         THEN mark_model_failed(failed_models, Current(gs[c]))
                         ELSE failed_models)
    /\ UNCHANGED <<now, model, fallback_chain, fallback_enabled, failLedger>>

\* the native stream raises, at creation or between chunks
GsNativeError(c) ==
    /\ gs[c].pc = "native"
    /\ gs' = [gs EXCEPT ![c] = NativeFailed(gs[c])]
    /\ UNCHANGED <<now, model, fallback_chain, fallback_enabled, failed_models,
                   failLedger>>

\* GsNativeEnd that returns without clearing the failure cache entry
GsNativeEnd_KeepsFailure(c) ==
    /\ gs[c].pc = "native"
    /\ IF gs[c].chunks_yielded = 0
       THEN gs' = [gs EXCEPT ![c] = NativeFailed(gs[c])]
       ELSE gs' = [gs EXCEPT ![c].pc = "returned", ![c].succeeded = Current(gs[c])]
    /\ UNCHANGED <<now, model, fallback_chain, fallback_enabled, failed_models,
                   failLedger>>

\* lines 337-338, 365-366, 544-546: the native stream ends; no chunk is a failure,
\* otherwise the failure cache entry is cleared and the call returns
GsNativeEnd(c) ==
    /\ gs[c].pc = "native"
    /\ IF gs[c].chunks_yielded = 0
       THEN /\ gs' = [gs EXCEPT ![c] = NativeFailed(gs[c])]
            /\ UNCHANGED <<failed_models, failLedger>>
       ELSE /\ gs' = [gs EXCEPT ![c].pc = "returned",
                                ![c].succeeded = Current(gs[c])]
            /\ IF fallback_enabled
               THEN /\ failed_models' = clear_failure(failed_models, Current(gs[c]))
                    /\ failLedger' = [m \in DOMAIN failLedger \ {Current(gs[c])} |->
                                        failLedger[m]]
               ELSE UNCHANGED <<failed_models, failLedger>>
    /\ UNCHANGED <<now, model, fallback_chain, fallback_enabled>>

\* SingleFailed that goes through the chain from its first model again
SingleFailed_FromStart(c) ==
    LET g == gs[c]
        failed == mark_model_failed(failed_models, Current(g))
    IN  /\ failed_models' = failed
        /\ failLedger' = [m \in DOMAIN failLedger \cup {Current(g)} |->
                            IF m = Current(g) THEN now ELSE failLedger[m]]
        /\ gs' = [gs EXCEPT ![c] =
                    Select([g EXCEPT !.last_error = Current(g)], 1, failed)]

\* SingleFailed that moves on to the next model without recording the failure
SingleFailed_NoMark(c) ==
    /\ UNCHANGED <<failed_models, failLedger>>
    /\ gs' = [gs EXCEPT ![c] =
                Select([gs[c] EXCEPT !.last_error = Current(gs[c])],
                       gs[c].idx + 1, failed_models)]

\* lines 563-569: the single-shot attempt failed: mark the model, try the next one
SingleFailed(c) ==
    LET g == gs[c]
        failed == mark_model_failed(failed_models, Current(g))
    IN  /\ failed_models' = failed
        /\ failLedger' = [m \in DOMAIN failLedger \cup {Current(g)} |->
                            IF m = Current(g) THEN now ELSE failLedger[m]]
        /\ gs' = [gs EXCEPT ![c] =
                    Select([g EXCEPT !.last_error = Current(g)], g.idx + 1, failed)]

\* lines 433-478: the single-shot call returns; empty text is a failure, otherwise
\* the first simulated chunk is yielded
GsSingle(c, full_response) ==
    /\ gs[c].pc = "single"
    /\ IF full_response = <<>>
       THEN SingleFailed(c)
       ELSE /\ gs' = [gs EXCEPT ![c].pc = "sim",
                                ![c].pending = Tail(SimChunks(full_response)),
                                ![c].out = Append(@, [model |-> Current(gs[c]),
                                                      kind |-> "single"]),
                                ![c].response = full_response,
                                ![c].emitted = <<Head(SimChunks(full_response))>>]
            /\ UNCHANGED <<failed_models, failLedger>>
    /\ UNCHANGED <<now, model, fallback_chain, fallback_enabled>>

\* the single-shot call raises
GsSingleError(c) ==
    /\ gs[c].pc = "single"
    /\ SingleFailed(c)
    /\ UNCHANGED <<now, model, fallback_chain, fallback_enabled>>

\* GsSimChunk that passes over a chunk of the response without yielding it
GsSimChunk_SkipsChunk(c) ==
    /\ gs[c].pc = "sim"
    /\ gs[c].pending # <<>>
    /\ gs' = [gs EXCEPT ![c].pending = Tail(@)]
    /\ UNCHANGED <<now, model, fallback_chain, fallback_enabled, failed_models,
                   failLedger>>

\* lines 477-479: the next simulated chunk is yielded
GsSimChunk(c) ==
    /\ gs[c].pc = "sim"
    /\ gs[c].pending # <<>>
    /\ gs' = [gs EXCEPT ![c].pending = Tail(@),
                         ![c].out = Append(@, [model |-> Current(gs[c]),
                                               kind |-> "single"]),
                         ![c].emitted = Append(@, Head(gs[c].pending))]
    /\ UNCHANGED <<now, model, fallback_chain, fallback_enabled, failed_models,
                   failLedger>>

\* lines 560-562: the simulated stream is exhausted: clear the entry, return
GsSimEnd(c) ==
    /\ gs[c].pc = "sim"
    /\ gs[c].pending = <<>>
    /\ gs' = [gs EXCEPT ![c].pc = "returned", ![c].succeeded = Current(gs[c])]
    /\ failed_models' = clear_failure(failed_models, Current(gs[c]))
    /\ failLedger' = [m \in DOMAIN failLedger \ {Current(gs[c])} |-> failLedger[m]]
    /\ UNCHANGED <<now, model, fallback_chain, fallback_enabled>>

\* the consumer closes or cancels the generator at an await or yield
GsClose(c) ==
    /\ GsActive(c)
    /\ gs' = [gs EXCEPT ![c].pc = "closed"]
    /\ UNCHANGED <<now, model, fallback_chain, fallback_enabled, failed_models,
                   failLedger>>

\* time.time() advances
Tick ==
    /\ now < MaxTime
    /\ now' = now + 1
    /\ UNCHANGED <<model, fallback_chain, fallback_enabled, failed_models,
                   failLedger, gs>>

GsConfigured(m, chain, enabled) ==
    /\ now = 0
    /\ model = m
    /\ fallback_chain = (IF chain = <<>> THEN get_fallback_chain(m) ELSE chain)
    /\ fallback_enabled = enabled
    /\ failed_models = <<>>
    /\ failLedger = <<>>
    /\ gs = [c \in Call |-> GsIdle]

(***************************************************************************)
(* Specifications.                                                         *)
(***************************************************************************)
\* a conversation an earlier turn left in the repository
EarlierTurn ==
    [id |-> 1, user_id |-> "u1",
     messages |-> <<Message(<<"a">>, "user"), Message(<<"a">>, "assistant")>>]

\* the repository is empty (InMemoryRepository.__init__) or, being a database
\* that outlives the process, already holds a conversation; the use case is given
\* an LLMPort of which nothing is assumed ("any")
UcInit ==
    /\ \/ storage = <<>> /\ nextId = 1
       \/ storage = <<EarlierTurn>> /\ nextId = 2
    /\ started = 0
    /\ uc = [r \in Req |-> UcIdle]
    /\ sse = [r \in Req |-> SseIdle]
    /\ rp = RpIdle("memory")
    /\ llm = "any"

\* one request at a time, streaming or not, against the repository
Init ==
    /\ UcInit
    /\ GsConfigured("gpt-3.5-turbo", <<>>, TRUE)

Next ==
    \/ \E user_id \in User, message_content \in {<<"a">>, <<" ">>},
          conversation_id \in 0..UnknownId :
            UcStart("r1", user_id, message_content, conversation_id) /\ UNCHANGED <<sse, llm, rp, gsVars>>
    \/ UcSaveUser("r1") /\ UNCHANGED <<sse, llm, rp, gsVars>>
    \/ \E chunk \in Chunks : UcChunk("r1", chunk) /\ UNCHANGED <<sse, llm, rp, gsVars>>
    \/ UcBreak("r1") /\ UNCHANGED <<sse, llm, rp, gsVars>>
    \/ UcStreamEnd("r1") /\ UNCHANGED <<sse, llm, rp, gsVars>>
    \/ UcStreamError("r1") /\ UNCHANGED <<sse, llm, rp, gsVars>>
    \/ UcFinalize("r1") /\ UNCHANGED <<sse, llm, rp, gsVars>>
    \/ UcClose("r1") /\ UNCHANGED <<sse, llm, rp, gsVars>>
    \/ \E user_id \in User, message_content \in {<<"a">>, <<" ">>},
          conversation_id \in 0..UnknownId :
            PmStart("r1", user_id, message_content, conversation_id) /\ UNCHANGED <<sse, llm, rp, gsVars>>
    \/ \E response_content \in {<<>>, <<"a">>, <<" ">>} :
            PmGenerated("r1", response_content) /\ UNCHANGED <<sse, llm, rp, gsVars>>
    \/ PmGenerateError("r1") /\ UNCHANGED <<sse, llm, rp, gsVars>>

Spec == Init /\ [][Next]_vars

\* one streaming response of the SSE route at a time
NextSse ==
    \/ \E user_id \in User, message_content \in {<<"a">>, <<" ">>},
          conversation_id \in 0..UnknownId :
            SseStart("r1", user_id, message_content, conversation_id)
                /\ UNCHANGED <<llm, rp, gsVars>>
    \/ SseStep("r1") /\ UNCHANGED <<llm, rp, gsVars>>
    \/ SseClose("r1") /\ UNCHANGED <<llm, rp, gsVars>>

SpecSse == Init /\ [][NextSse]_vars

\* a streaming request that has loaded the conversation of EarlierTurn and is
\* suspended at the await of line 94
LoadedEarlierTurn ==
    [UcIdle EXCEPT !.pc = "loaded", !.message_content = <<"a">>,
                   !.conversation_id = 1, !.conversation = EarlierTurn, !.base = 2]

\* two streaming requests of one user on the conversation of EarlierTurn, in the
\* one repository the container shares: r2 has loaded it, r1 is about to
InitConcurrent ==
    /\ storage = <<EarlierTurn>> /\ nextId = 2
    /\ started = 0
    /\ uc = [r \in Req |-> IF r = "r2" THEN LoadedEarlierTurn ELSE UcIdle]
    /\ sse = [r \in Req |-> SseIdle]
    /\ rp = RpIdle("memory")
    /\ llm = "any"
    /\ GsConfigured("gpt-3.5-turbo", <<>>, TRUE)

NextConcurrent ==
    \E r \in Req :
        \/ UcStart(r, "u1", <<"a">>, 1) /\ UNCHANGED <<sse, llm, rp, gsVars>>
        \/ UcSaveUser(r) /\ UNCHANGED <<sse, llm, rp, gsVars>>
        \/ \E chunk \in {<<"a">>, <<"a", "a">>} :
                UcChunk(r, chunk) /\ UNCHANGED <<sse, llm, rp, gsVars>>
        \/ UcBreak(r) /\ UNCHANGED <<sse, llm, rp, gsVars>>
        \/ UcStreamEnd(r) /\ UNCHANGED <<sse, llm, rp, gsVars>>
        \/ UcStreamError(r) /\ UNCHANGED <<sse, llm, rp, gsVars>>
        \/ UcFinalize(r) /\ UNCHANGED <<sse, llm, rp, gsVars>>
        \/ UcClose(r) /\ UNCHANGED <<sse, llm, rp, gsVars>>

SpecConcurrent == InitConcurrent /\ [][NextConcurrent]_vars

\* one streaming request at a time against a healthy backend of any kind the
\* factory creates
InitBackends ==
    /\ \/ storage = <<>> /\ nextId = 1
       \/ storage = <<EarlierTurn>> /\ nextId = 2
    /\ started = 0
    /\ uc = [r \in Req |-> UcIdle]
    /\ sse = [r \in Req |-> SseIdle]
    /\ rp = RpIdle("memory")
    /\ llm \in Providers
    /\ GsConfigured("gpt-3.5-turbo", <<>>, TRUE)

NextBackends ==
    \/ \E user_id \in User, conversation_id \in 0..UnknownId :
            UcStart("r1", user_id, <<"a">>, conversation_id)
                /\ UNCHANGED <<sse, llm, rp, gsVars>>
    \/ UcSaveUser("r1") /\ UNCHANGED <<sse, llm, rp, gsVars>>
    \/ \E chunk \in HealthyChunks :
            BkChunk("r1", chunk) /\ UNCHANGED <<sse, llm, rp, gsVars>>
    \/ BkStreamEnd("r1") /\ UNCHANGED <<sse, llm, rp, gsVars>>
    \/ BkNotIterable("r1") /\ UNCHANGED <<sse, llm, rp, gsVars>>
    \/ UcBreak("r1") /\ UNCHANGED <<sse, llm, rp, gsVars>>
    \/ UcFinalize("r1") /\ UNCHANGED <<sse, llm, rp, gsVars>>

SpecBackends == InitBackends /\ [][NextBackends]_vars

\* two holders of Conversation objects driving one repository of any
\* implementation: r1 creates conversations and adds messages, r2 loads them
InitRepository ==
    /\ storage = <<>> /\ nextId = 1
    /\ started = 0
    /\ uc = [r \in Req |-> UcIdle]
    /\ sse = [r \in Req |-> SseIdle]
    /\ llm = "any"
    /\ \E kind \in Repositories : rp = RpIdle(kind)
    /\ GsConfigured("gpt-3.5-turbo", <<>>, TRUE)

NextRepository ==
    \/ \E user_id \in User :
            RpNew("r1", user_id) /\ UNCHANGED <<started, uc, sse, llm, gsVars>>
    \/ \E t \in Instants(rp.clock) :
            RpAdd("r1", "user", t) /\ UNCHANGED <<started, uc, sse, llm, gsVars>>
    \/ \E h \in {x \in Req : x = "r1" \/ rp.held[x].id # 0} :
            RpSave(h) /\ UNCHANGED <<started, uc, sse, llm, gsVars>>
    \/ \E conversation_id \in 1..UnknownId :
            RpFind("r2", conversation_id) /\ UNCHANGED <<started, uc, sse, llm, gsVars>>
    \/ \E conversation_id \in 1..UnknownId :
            RpDelete(conversation_id) /\ UNCHANGED <<started, uc, sse, llm, gsVars>>

SpecRepository == InitRepository /\ [][NextRepository]_vars

\* generate_stream calls, one at a time, on a provider of any configuration
InitProvider ==
    /\ storage = <<>> /\ nextId = 1 /\ started = 0
    /\ uc = [r \in Req |-> UcIdle]
    /\ sse = [r \in Req |-> SseIdle]
    /\ rp = RpIdle("memory")
    /\ llm = "openai"
    /\ \E cfg \in Configurations, enabled \in BOOLEAN :
          GsConfigured(cfg[1], cfg[2], enabled)

GsNext(c) ==
    \/ GsStart(c) /\ UNCHANGED ucVars
    \/ GsNativeChunk(c) /\ UNCHANGED ucVars
    \/ GsNativeError(c) /\ UNCHANGED ucVars
    \/ GsNativeEnd(c) /\ UNCHANGED ucVars
    \/ \E full_response \in Responses :
            GsSingle(c, full_response) /\ UNCHANGED ucVars
    \/ GsSingleError(c) /\ UNCHANGED ucVars
    \/ GsSimChunk(c) /\ UNCHANGED ucVars
    \/ GsSimEnd(c) /\ UNCHANGED ucVars
    \/ GsClose(c) /\ UNCHANGED ucVars

NextProvider ==
    \/ GsNext("A")
    \/ Tick /\ UNCHANGED ucVars

SpecProvider == InitProvider /\ [][NextProvider]_vars

\* a step of a running call whose consumer keeps pulling: a backend call
\* answers, or the generator is resumed after a yield
GsPulled(c) ==
    \/ GsNativeChunk(c) /\ UNCHANGED ucVars
    \/ GsNativeError(c) /\ UNCHANGED ucVars
    \/ GsNativeEnd(c) /\ UNCHANGED ucVars
    \/ \E full_response \in Responses :
            GsSingle(c, full_response) /\ UNCHANGED ucVars
    \/ GsSingleError(c) /\ UNCHANGED ucVars
    \/ GsSimChunk(c) /\ UNCHANGED ucVars
    \/ GsSimEnd(c) /\ UNCHANGED ucVars

NextPulled ==
    \/ GsStart("A") /\ UNCHANGED ucVars
    \/ GsPulled("A")
    \/ Tick /\ UNCHANGED ucVars

\* generate_stream calls, one at a time, that are never closed: every backend
\* call terminates and the consumer pulls the next chunk after each yield
SpecPulled == InitProvider /\ [][NextPulled]_vars /\ WF_vars(GsPulled("A"))

\* two generate_stream calls in flight on the one provider the container shares
InitShared ==
    /\ storage = <<>> /\ nextId = 1 /\ started = 0
    /\ uc = [r \in Req |-> UcIdle]
    /\ sse = [r \in Req |-> SseIdle]
    /\ rp = RpIdle("memory")
    /\ llm = "openai"
    /\ GsConfigured("gpt-4", <<>>, TRUE)

NextShared ==
    \/ \E c \in Call : GsNext(c)
    \/ Tick /\ UNCHANGED ucVars

SpecShared == InitShared /\ [][NextShared]_vars

(***************************************************************************)
(* Claims about StreamMessageUseCase.execute (specification Spec).         *)
(***************************************************************************)
\* the stored conversation the request announced
Stored(r) == find_by_id(uc[r].announced)

\* the repository holds an assistant message for the turn of request r
AssistantStored(r) ==
    /\ uc[r].announced # 0
    /\ Found(uc[r].announced)
    /\ Len(Stored(r).messages) > uc[r].base + 1

\* the content of that message
AssistantContent(r) == Stored(r).messages[uc[r].base + 2].content

\* C1: at every moment a generated chunk is being yielded, find_by_id on the
\* announced conversation id finds a conversation whose messages hold the
\* request's user message right after the messages the conversation had before
C1_UserSavedBeforeChunk ==
    \A r \in Req :
        uc[r].pc \in {"yielded", "yieldedTrunc"} =>
            /\ uc[r].announced # 0
            /\ Found(uc[r].announced)
            /\ Len(Stored(r).messages) > uc[r].base
            /\ Stored(r).messages[uc[r].base + 1] = Message(uc[r].message_content, "user")
            /\ Stored(r).user_id = uc[r].user_id

C1_Witness ==
    \E r \in Req :
        /\ uc[r].pc = "yielded"
        /\ Len(uc[r].emitted) = 1
        /\ uc[r].base > 0

\* C2: once the repository holds the assistant message (response or error
\* marker) of a request, that request yields no chunk any more, and the step that
\* stores the message yields none either
C2_AssistantSavedAfterLastChunk ==
    [][\A r \in Req :
          (AssistantStored(r)' /\ uc'[r].n = uc[r].n) =>
              uc'[r].emitted = uc[r].emitted]_vars

C2_Witness ==
    \E r \in Req :
        /\ uc[r].pc = "done"
        /\ AssistantStored(r)
        /\ Len(uc[r].emitted) >= 2

\* C3: the response buffer never holds more than MAX_RESPONSE_CHARS characters,
\* and neither does the text emitted to the caller in one request
C3_BufferBounded ==
    \A r \in Req :
        /\ Len(uc[r].response_buffer) <= MAX_RESPONSE_CHARS
        /\ Len(Concat(uc[r].emitted)) <= MAX_RESPONSE_CHARS

C3_Witness ==
    \E r \in Req :
        /\ uc[r].produced > MAX_RESPONSE_CHARS
        /\ Len(uc[r].response_buffer) = MAX_RESPONSE_CHARS
        /\ Len(uc[r].emitted) >= 2

\* what the caller has received once chunk `last.chunk` arrived after `last.before`
ExpectedEmitted(last) ==
    LET allowance == MAX_RESPONSE_CHARS - Len(Concat(last.before))
    IN  IF Len(last.chunk) <= allowance THEN Append(last.before, last.chunk)
        ELSE IF allowance > 0 THEN Append(last.before, SubSeq(last.chunk, 1, allowance))
        ELSE last.before

\* C4: a non-empty chunk within the allowance is emitted unchanged, the chunk that
\* crosses the maximum is cut to exactly the remaining allowance (nothing is
\* emitted when the allowance is 0), and when the backend produced more than the
\* maximum the persisted assistant text without the notice has exactly
\* MAX_RESPONSE_CHARS characters
C4_CutToAllowance ==
    \A r \in Req :
        /\ (uc[r].pulled > 0 /\ uc[r].last.chunk # <<>>) =>
                uc[r].emitted = ExpectedEmitted(uc[r].last)
        /\ (uc[r].pc = "done" /\ uc[r].produced > MAX_RESPONSE_CHARS) =>
                /\ AssistantStored(r)
                /\ Len(AssistantContent(r)) =
                        MAX_RESPONSE_CHARS + Len(TRUNCATION_NOTICE)
                /\ SubSeq(AssistantContent(r), 1, MAX_RESPONSE_CHARS) =
                        Concat(uc[r].emitted)

C4_Witness ==
    \E r \in Req :
        /\ uc[r].pc = "done"
        /\ uc[r].produced > MAX_RESPONSE_CHARS
        /\ Len(uc[r].last.chunk) > 1
        /\ Len(uc[r].emitted[Len(uc[r].emitted)]) = 1
        /\ AssistantStored(r)

\* C5: once a request has seen truncation it pulls no further chunk from the
\* backend stream and emits no further chunk
C5_NoPullAfterTruncation ==
    [][\A r \in Req :
          (uc[r].response_truncated /\ uc'[r].n = uc[r].n) =>
              /\ uc'[r].pulled = uc[r].pulled
              /\ uc'[r].emitted = uc[r].emitted]_vars

C5_Witness ==
    \E r \in Req :
        /\ uc[r].response_truncated
        /\ uc[r].pulled < MaxPulls
        /\ uc[r].pc = "done"

\* C6: the persisted response is the emitted text followed by the truncation
\* notice when the request was truncated and by nothing otherwise, and it was
\* truncated exactly when the backend handed over more than MAX_RESPONSE_CHARS
\* characters (so a response of exactly the maximum carries no notice)
C6_NoticeIffTruncated ==
    \A r \in Req :
        (uc[r].pc = "done" /\ AssistantStored(r)) =>
            /\ uc[r].response_truncated <=> uc[r].produced > MAX_RESPONSE_CHARS
            /\ uc[r].produced > MAX_RESPONSE_CHARS =>
                    /\ AssistantContent(r) = Concat(uc[r].emitted) \o TRUNCATION_NOTICE
                    /\ EndsWith(AssistantContent(r), TRUNCATION_NOTICE)
            /\ uc[r].produced <= MAX_RESPONSE_CHARS =>
                    /\ AssistantContent(r) = Concat(uc[r].emitted)
                    /\ ~EndsWith(AssistantContent(r), TRUNCATION_NOTICE)

C6_Witness ==
    \E r \in Req :
        /\ uc[r].pc = "done"
        /\ AssistantStored(r)
        /\ uc[r].produced = MAX_RESPONSE_CHARS
        /\ ~uc[r].response_truncated

(***************************************************************************)
(* Claims about OpenAIProvider.generate_stream.                            *)
(***************************************************************************)
\* a failure is on record for `name` and is younger than the cooldown
Cooling(ledger, name) ==
    /\ name \in DOMAIN ledger
    /\ now - ledger[name] < Cooldown

\* the position of a model in a chain without repetition
Pos(chain, name) == CHOOSE i \in 1..Len(chain) : chain[i] = name

\* call c has just appended an attempt to its log
NewAttempt(c) ==
    /\ gs'[c] # gs[c]
    /\ gs'[c].attempts # <<>>
    /\ \/ ~GsActive(c)
       \/ Len(gs'[c].attempts) > Len(gs[c].attempts)

\* the models call c has just skipped
NewlySkipped(c) ==
    IF gs'[c] = gs[c] THEN {}
    ELSE IF ~GsActive(c) THEN gs'[c].skipped
    ELSE gs'[c].skipped \ gs[c].skipped

\* C7 (as claimed): a call that arrives while every backend of its chain is in
\* cooldown still attempts the primary backend
C7_PrimaryAttemptedWhenAllCooling ==
    \A c \in Call :
        (gs[c].pc # "idle" /\ gs[c].coolAtStart) =>
            /\ gs[c].attempts # <<>>
            /\ gs[c].attempts[1] = [model |-> model, kind |-> "native"]

\* C8: the chain of a call starts with the primary model and names no backend
\* twice, the backends are attempted in chain order, and no backend is selected
\* for an attempt while a failure recorded for it is younger than the cooldown
C8_ChainOrderAndCooldown ==
    [][\A c \in Call :
          LET g == gs'[c]
              a == g.attempts
          IN  /\ g.pc # "idle" =>
                    /\ g.chain[1] = model
                    /\ \A i, j \in 1..Len(g.chain) : i # j => g.chain[i] # g.chain[j]
                    /\ \A i \in 1..Len(a) : InSeq(a[i].model, g.chain)
                    /\ \A i, j \in 1..Len(a) :
                          i < j => Pos(g.chain, a[i].model) <= Pos(g.chain, a[j].model)
                    /\ \A i, j \in 1..Len(a) :
                          (i < j /\ a[i].kind = a[j].kind) => a[i].model # a[j].model
              /\ (fallback_enabled /\ NewAttempt(c) /\ a[Len(a)].kind = "native") =>
                    ~Cooling(failLedger', a[Len(a)].model)]_vars

C8_Witness ==
    \E c \in Call :
        /\ Len(gs[c].chain) = 3
        /\ gs[c].skipped # {}
        /\ gs[c].pc = "native"
        /\ gs[c].idx = 3
        /\ Len(gs[c].attempts) = 1

\* C9: a backend is skipped exactly when a failure recorded for it (and not
\* cleared by a success since) is younger than the cooldown: every skip decision
\* of a call meets such a failure, every attempt starts on a backend without one,
\* so a failed backend is eligible again once the cooldown has elapsed and a
\* backend never marked failed is always eligible
C9_SkippedIffCooling ==
    [][/\ \A name \in {"gpt-5", "gpt-4", "gpt-3.5-turbo"} :
              should_skip_model(failed_models, name)' <=>
                  (fallback_enabled /\ Cooling(failLedger, name))'
       /\ \A c \in Call :
              /\ \A name \in NewlySkipped(c) : Cooling(failLedger', name)
              /\ (NewAttempt(c) /\ gs'[c].attempts[Len(gs'[c].attempts)].kind = "native") =>
                    ~Cooling(failLedger', gs'[c].attempts[Len(gs'[c].attempts)].model)]_vars

C9_Witness ==
    \E c \in Call :
        /\ gs[c].pc = "native"
        /\ gs[c].skipped # {}
        /\ Current(gs[c]) \in DOMAIN failed_models
        /\ now - failed_models[Current(gs[c])] >= Cooldown

SingleShotFails(c) ==
    /\ gs[c].pc = "single"
    /\ gs'[c].pc \in {"native", "raised"}

\* C11 (as claimed): while the single-shot attempt on a backend is in progress,
\* the backend is on record as failed
C11_MarkedBeforeSingleShot ==
    \A c \in Call :
        gs[c].pc = "single" => Current(gs[c]) \in DOMAIN failed_models

\* C11 (amended): a failed or empty native attempt leaves the record of failures
\* as it is and starts the single-shot attempt on the same backend; a backend is
\* recorded as failed, with the current time, exactly in the step in which the
\* single-shot attempt on it fails
C11_MarkedWhenSingleShotFails ==
    [][/\ \A c \in Call :
              /\ (gs[c].pc = "native" /\ gs'[c].pc = "single") =>
                    /\ failed_models' = failed_models
                    /\ Current(gs'[c]) = Current(gs[c])
              /\ SingleShotFails(c) =>
                    /\ Current(gs[c]) \in DOMAIN failed_models'
                    /\ failed_models'[Current(gs[c])] = now
       /\ \A m \in DOMAIN failed_models' :
              (m \notin DOMAIN failed_models \/ failed_models'[m] # failed_models[m]) =>
                  \E c \in Call : SingleShotFails(c) /\ Current(gs[c]) = m]_vars

C11_Witness ==
    \E c \in Call :
        /\ gs[c].pc = "single"
        /\ gs[c].idx = 2
        /\ gs[c].chain[1] \in DOMAIN failed_models
        /\ gs[c].chain[2] \notin DOMAIN failed_models

\* C12: in the step in which an attempt of a call succeeds (the native stream
\* ends after at least one chunk, or the simulated stream is exhausted) the
\* backend has no failure on record any more, the other entries are untouched,
\* and the backend is not skipped by a chain built right then
C12_SuccessClearsFailure ==
    [][\A c \in Call :
          (GsActive(c) /\ gs'[c].pc = "returned") =>
              LET m == Current(gs[c])
              IN  /\ gs'[c].succeeded = m
                  /\ gs[c].pc = "native" => gs[c].chunks_yielded > 0
                  /\ m \notin DOMAIN failed_models'
                  /\ \A o \in DOMAIN failed_models \ {m} :
                        o \in DOMAIN failed_models' /\ failed_models'[o] = failed_models[o]
                  /\ ~should_skip_model(failed_models', m)
                  /\ NextIndex(<<m>>, 1, failed_models') = 1]_vars

C12_Witness ==
    \E c \in Call :
        /\ gs[c].pc = "returned"
        /\ gs[c].succeeded = gs[c].chain[1]
        /\ Len(gs[c].attempts) = 1
        /\ Len(gs[c].chain) = 2
        /\ gs[c].chain[1] \notin DOMAIN failed_models
        /\ gs[c].chain[2] \in DOMAIN failed_models

\* the set of the elements of a sequence
Range(seq) == {seq[i] : i \in 1..Len(seq)}

NoRepetition(seq) == \A i, j \in 1..Len(seq) : i # j => seq[i] # seq[j]

\* C13 (as claimed): the "All models failed" error names the backends attempted
\* in the request, each once, and no other
C13_ErrorListsAttempted ==
    \A c \in Call :
        (gs[c].pc = "raised" /\ fallback_enabled /\ gs[c].attempts # <<>>) =>
            /\ NoRepetition(gs[c].error_models)
            /\ Range(gs[c].error_models) = {a.model : a \in Range(gs[c].attempts)}

\* C13 (amended): with fallback enabled, the error of a call in which no backend
\* succeeded names every backend of the call's chain once, in chain order; each
\* of them was either attempted (natively and single-shot) or skipped for
\* cooldown, and every attempted backend is among them
C13_ErrorListsChain ==
    \A c \in Call :
        (gs[c].pc = "raised" /\ fallback_enabled) =>
            LET g == gs[c]
                tried == {a.model : a \in Range(g.attempts)}
            IN  /\ g.error_models = g.chain
                /\ g.error_models[1] = model
                /\ NoRepetition(g.error_models)
                /\ Range(g.error_models) = tried \cup g.skipped
                /\ tried \cap g.skipped = {}
                /\ \A m \in tried :
                      /\ [model |-> m, kind |-> "native"] \in Range(g.attempts)
                      /\ [model |-> m, kind |-> "single"] \in Range(g.attempts)

C13_Witness ==
    \E c \in Call :
        /\ gs[c].pc = "raised"
        /\ gs[c].skipped # {}
        /\ gs[c].attempts # <<>>
        /\ Len(gs[c].error_models) = 3

GivenIdUnknown(r) ==
    /\ uc[r].pc # "idle"
    /\ uc[r].conversation_id = UnknownId

NonStreaming(r) == uc[r].pc \in {"pmGenerating", "pmDone", "pmRaised"}

\* C16 (as claimed): a non-streaming request that names an id under which nothing
\* is stored fails with the repository's not-found error, without a call of the
\* backend and without a save
C16_NotFoundFails ==
    \A r \in Req :
        (NonStreaming(r) /\ GivenIdUnknown(r)) =>
            /\ uc[r].pc = "pmRaised"
            /\ uc[r].raised = "RepositoryError"
            /\ ~uc[r].generate_called
            /\ uc[r].announced = 0

\* request r named the id of a stored conversation of its user, and find_by_id
\* returned it (a stored conversation holds at least one message)
GivenIdOwn(r) ==
    /\ uc[r].pc # "idle"
    /\ uc[r].conversation_id # 0
    /\ Found(uc[r].conversation_id)
    /\ find_by_id(uc[r].conversation_id).user_id = uc[r].user_id
    /\ uc[r].base >= 1

\* request r is past the save of its user message
UserSaved(r) ==
    uc[r].pc \in {"announced", "pulling", "yielded", "yieldedTrunc", "finalize",
                  "done", "closed", "pmDone"}
    \/ (uc[r].pc = "raised" /\ uc[r].announced # 0)

\* C17: a request, streaming or not, that names a stored conversation of its user
\* creates no conversation, announces or returns the id it was given, and once its
\* user message is saved the conversation stored under that id holds the messages
\* it held before followed by the user message
C17_ContinuesGivenConversation ==
    [][\A r \in Req :
          GivenIdOwn(r)' =>
              /\ uc'[r].n = uc[r].n => DOMAIN storage' = DOMAIN storage
              /\ uc'[r].announced \in {0, uc'[r].conversation_id}
              /\ UserSaved(r)' =>
                    /\ uc'[r].announced = uc'[r].conversation_id
                    /\ Stored(r)'.id = uc'[r].conversation_id
                    /\ Len(Stored(r)'.messages) > uc'[r].base
                    /\ Stored(r)'.messages[uc'[r].base + 1] =
                           Message(uc'[r].message_content, "user")
                    /\ SubSeq(Stored(r)'.messages, 1, uc'[r].base) =
                           SubSeq(uc'[r].conversation.messages, 1, uc'[r].base)
                    /\ uc'[r].n = uc[r].n =>
                           SubSeq(Stored(r)'.messages, 1, uc'[r].base) =
                               SubSeq(find_by_id(uc[r].conversation_id).messages,
                                      1, uc[r].base)]_vars

C17_Witness ==
    \E r \in Req :
        /\ GivenIdOwn(r)
        /\ uc[r].pc = "pmDone"
        /\ uc[r].announced = 1
        /\ Len(Stored(r).messages) = 4

\* request r ends a successful turn in this step: a response was generated and
\* saved and the request ends normally
TurnCompletes(r) ==
    /\ uc[r].pc \in {"finalize", "pmGenerating"}
    /\ \/ uc'[r].pc = "pmDone"
       \/ uc'[r].pc = "done" /\ uc'[r].chunk_count > 0

\* the text generated for the turn of a request that has ended
Generated(s) == IF s.pc = "pmDone" THEN s.response ELSE FullResponse(s)

\* the messages of k whole turns: user, assistant, user, assistant, ...
WholeTurns(messages) ==
    /\ Len(messages) % 2 = 0
    /\ \A i \in 1..Len(messages) :
          messages[i].role = (IF i % 2 = 1 THEN "user" ELSE "assistant")

\* C18: a successful turn, streaming or not, leaves under its conversation id the
\* messages the conversation held when the turn started followed by the turn's user
\* message and the generated assistant message, and changes no other conversation;
\* so a first turn leaves 2 messages, and a turn on a conversation of k whole turns
\* leaves k + 1 whole turns, with no message stored twice
C18_TurnAppendsPair ==
    [][\A r \in Req :
          TurnCompletes(r) =>
              LET before == SubSeq(uc[r].conversation.messages, 1, uc[r].base)
                  after == Stored(r)'.messages
              IN  /\ after = before \o <<Message(uc[r].message_content, "user"),
                                         Message(Generated(uc'[r]), "assistant")>>
                  /\ uc[r].conversation_id = 0 => Len(after) = 2
                  /\ WholeTurns(before) =>
                        WholeTurns(after) /\ Len(after) = Len(before) + 2
                  /\ uc[r].base > 0 => before = find_by_id(uc[r].conversation_id).messages
                                          \/ before \o <<Message(uc[r].message_content, "user")>>
                                               = find_by_id(uc[r].conversation_id).messages
                  /\ \A id \in DOMAIN storage \ {uc'[r].announced} :
                        id \in DOMAIN storage' /\ storage'[id] = storage[id]]_vars

C18_Witness ==
    \E r \in Req :
        /\ uc[r].pc = "done"
        /\ uc[r].chunk_count > 1
        /\ uc[r].base = 2
        /\ WholeTurns(Stored(r).messages)
        /\ Len(Stored(r).messages) = 4

(***************************************************************************)
(* Claims about failed generation in the streaming path.                   *)
(***************************************************************************)
\* C19: a streaming request whose backend stream raised ends with LLMError for
\* the caller, whether the save of the error marker succeeded or not; when it
\* succeeded the stored conversation holds, after the messages it held before the
\* turn, the user message and then an assistant message with the error marker,
\* and when it failed the stored conversation ends with the user message
C19_ErrorMarkerSaved ==
    \A r \in Req :
        uc[r].gen_failed =>
            LET before == SubSeq(uc[r].conversation.messages, 1, uc[r].base)
                user == Message(uc[r].message_content, "user")
                marker == Message(ErrorMarker("error"), "assistant")
            IN  /\ uc[r].pc = "raised"
                /\ uc[r].raised = "LLMError"
                /\ Found(uc[r].announced)
                /\ MessageValid(marker.content, marker.role)
                /\ Stored(r).messages =
                       (IF uc[r].marker_saved
                        THEN before \o <<user, marker>>
                        ELSE before \o <<user>>)

C19_Witness ==
    \E r \in Req :
        /\ uc[r].gen_failed
        /\ ~uc[r].marker_saved
        /\ uc[r].emitted # <<>>
        /\ uc[r].raised = "LLMError"

\* C20 (as claimed): a streaming request never completes normally after a
\* backend stream that ended without a non-empty chunk: a request that ends
\* normally has received a chunk and has saved an assistant message
C20_EmptyStreamIsError ==
    \A r \in Req :
        uc[r].pc = "done" =>
            /\ uc[r].chunk_count > 0
            /\ AssistantStored(r)

(***************************************************************************)
(* Claims about the end of a streaming turn.                               *)
(***************************************************************************)
\* request r runs the streaming path and its user message is saved
StreamingUserSaved(r) ==
    /\ uc[r].pc \in {"announced", "pulling", "yielded", "yieldedTrunc", "finalize",
                     "done", "closed", "raised"}
    /\ uc[r].announced # 0

\* the generation of request r has ended and execute has returned or raised
GenerationEnded(r) == uc[r].pc \in {"done", "raised"}

\* the repository refused a save of request r after the user message
SaveRefused(r) ==
    \/ uc[r].pc = "raised" /\ uc[r].raised = "RepositoryError"
    \/ uc[r].gen_failed /\ ~uc[r].marker_saved

\* C21 (as claimed): a streaming request whose user message is saved, whose
\* generation has ended and to which the repository refused no save has left
\* exactly one assistant message after the user message of its turn
C21_ExactlyOneAssistant ==
    \A r \in Req :
        (StreamingUserSaved(r) /\ GenerationEnded(r) /\ ~SaveRefused(r)) =>
            /\ Found(uc[r].announced)
            /\ Len(Stored(r).messages) = uc[r].base + 2
            /\ Stored(r).messages[uc[r].base + 1] = Message(uc[r].message_content, "user")
            /\ Stored(r).messages[uc[r].base + 2].role = "assistant"

\* C22 (as claimed): a request whose consumer closed the stream after chunks
\* were emitted holds, in a repository that refuses no save, the text emitted so
\* far as the assistant message of its turn
C22_PartialSavedOnClose ==
    \A r \in Req :
        (uc[r].pc = "closed" /\ uc[r].emitted # <<>>) =>
            /\ AssistantStored(r)
            /\ AssistantContent(r) = uc[r].response_buffer

(***************************************************************************)
(* Claims about failures of the repository and of the backend.             *)
(***************************************************************************)
\* the save of the user message of streaming request r was refused: the request
\* has raised while its conversation holds the user message and nothing after it
\* and no chunk has been counted
UserSaveFailed(r) ==
    /\ uc[r].pc = "raised"
    /\ Len(uc[r].conversation.messages) = uc[r].base + 1
    /\ uc[r].chunk_count = 0

\* C23: a streaming request whose save of the user message was refused has ended
\* with RepositoryError before any generation: it pulled nothing from the backend,
\* emitted neither a conversation id nor a chunk, and the repository does not hold
\* its user message
C23_UserSaveFailureIsTerminal ==
    \A r \in Req :
        UserSaveFailed(r) =>
            /\ uc[r].raised = "RepositoryError"
            /\ uc[r].announced = 0
            /\ uc[r].emitted = <<>>
            /\ uc[r].pulled = 0
            /\ ~uc[r].gen_failed
            /\ uc[r].conversation.id # 0 =>
                  Len(find_by_id(uc[r].conversation.id).messages) = uc[r].base

C23_Witness ==
    \E r \in Req :
        /\ UserSaveFailed(r)
        /\ uc[r].raised = "RepositoryError"
        /\ uc[r].base = 2
        /\ uc[r].conversation.id = 1

(***************************************************************************)
(* Claims about the SSE response (specification SpecSse).                  *)
(***************************************************************************)
Terminal(event) == event.type \in {"done", "error"}

\* C24 (as claimed): once execute has ended, the events sent end with exactly one
\* terminal event and hold none before it: the completion event with the id of
\* the conversation the turn was saved under when execute returned, an error
\* event when it raised
C24_OneTerminalEvent ==
    \A r \in Req :
        uc[r].pc \in {"done", "raised"} =>
            LET events == sse[r].events
                final == events[Len(events)]
            IN  /\ events # <<>>
                /\ Terminal(final)
                /\ \A i \in 1..(Len(events) - 1) : ~Terminal(events[i])
                /\ uc[r].pc = "raised" <=> final.type = "error"
                /\ uc[r].pc = "done" =>
                      final = [type |-> "done", data |-> IdText(uc[r].announced)]

(***************************************************************************)
(* Claims about the stored history (specification SpecConcurrent).         *)
(***************************************************************************)
IsPrefix(s, t) == Len(s) <= Len(t) /\ SubSeq(t, 1, Len(s)) = s

\* C25 (as claimed): no step of any request, concurrent requests on one
\* conversation included, removes a stored conversation or removes, changes or
\* reorders a message it holds: the stored messages stay a prefix of the messages
\* stored after the step
C25_HistoryAppendOnly ==
    [][\A id \in DOMAIN storage :
          /\ id \in DOMAIN storage'
          /\ IsPrefix(storage[id].messages, storage'[id].messages)]_vars

(***************************************************************************)
(* Claims about ProviderState under concurrent calls (SpecShared).         *)
(***************************************************************************)
\* C26: whatever the interleaving of the calls that share the provider,
\* failed_models is a map with one instant per backend of the chain, none in the
\* future; failLedger folds the failures and successes the calls recorded (set to
\* the time of a failure, removed by a success), and failed_models equals it: the
\* instant of a backend is that of its most recent recorded failure, and a backend
\* has no entry exactly when no failure was recorded since its last success
C26_ProviderStateWellFormed ==
    /\ DOMAIN failed_models \subseteq Range(OptimizedChain)
    /\ \A m \in DOMAIN failed_models : failed_models[m] \in 0..now
    /\ failed_models = failLedger
    /\ \A c \in Call :
          gs[c].pc = "returned" /\ gs[c].succeeded \in DOMAIN failed_models =>
              \E o \in Call \ {c} : gs[o].pc # "idle"

C26_Witness ==
    /\ GsActive("A") /\ GsActive("B")
    /\ gs["A"].idx # gs["B"].idx
    /\ Cardinality(DOMAIN failed_models) = 2
    /\ \E m \in DOMAIN failed_models : failed_models[m] = now /\ now > 0
    /\ \E m \in DOMAIN failed_models : failed_models[m] < now

(***************************************************************************)
(* Claims about the errors and the messages of both use cases (Spec).      *)
(***************************************************************************)
\* C27 (as claimed): a request with a valid user message, streaming or not, that
\* fails reaches its caller as LLMError or RepositoryError, also when the
\* backend's response is empty or blank
C27_OnlyDomainErrorsEscape ==
    \A r \in Req :
        (uc[r].pc \in {"raised", "pmRaised"}
            /\ MessageValid(uc[r].message_content, "user")) =>
                uc[r].raised \in {"LLMError", "RepositoryError"}

\* C28: every message of every stored conversation has content that is not empty
\* and not all whitespace, and the role user or assistant
C28_StoredMessagesValid ==
    \A id \in DOMAIN storage :
        \A i \in 1..Len(storage[id].messages) :
            LET message == storage[id].messages[i]
            IN  /\ message.content # <<>>
                /\ \E k \in 1..Len(message.content) : message.content[k] \notin Whitespace
                /\ message.role \in {"user", "assistant"}

C28_Witness ==
    \E id \in DOMAIN storage :
        /\ Len(storage[id].messages) = 4
        /\ storage[id].messages[4].role = "assistant"
        /\ Len(storage[id].messages[4].content) = 2
        /\ storage[id].messages[4].content[1] = " "
        /\ \E r \in Req : uc[r].pc = "done"

(***************************************************************************)
(* Claims about the selectable backends (specification SpecBackends).      *)
(***************************************************************************)
\* C29 (as claimed): with a healthy backend of any of the three kinds, a
\* streaming request whose user message is saved, whose generation has ended and
\* to which the repository refused no save has ended normally, with the text the
\* backend delivered saved as the assistant message and no error marker
C29_EveryBackendStreams ==
    \A r \in Req :
        (StreamingUserSaved(r) /\ GenerationEnded(r) /\ ~SaveRefused(r)) =>
            /\ uc[r].pc = "done"
            /\ ~uc[r].gen_failed
            /\ uc[r].emitted # <<>>
            /\ AssistantStored(r)
            /\ AssistantContent(r) = FullResponse(uc[r])

(***************************************************************************)
(* Claims about the repositories (specification SpecRepository).           *)
(***************************************************************************)
\* the step is a repository operation, recorded in rp.last (add_message, the
\* one step that advances the clock, is none)
RepositoryOperation ==
    /\ rp'.clock = rp.clock
    /\ rp'.last # rp.last \/ storage' # storage

\* the conversation handed to the save recorded in rp'.last
SavedConversation == rp.held[rp'.last.h]

\* the conversation is new to the repository, or has the owner of the
\* conversation stored under its id and extends its messages by messages none
\* of which equals a stored one
ExtendsStored(conversation) ==
    \/ conversation.id \notin DOMAIN storage
    \/ LET stored == storage[conversation.id]
       IN  /\ stored.user_id = conversation.user_id
           /\ IsPrefix(stored.messages, conversation.messages)
           /\ \A k \in Len(stored.messages) + 1 .. Len(conversation.messages) :
                  \A j \in 1..Len(stored.messages) :
                      conversation.messages[k] # stored.messages[j]

\* what find_by_id and delete do, in every implementation: find_by_id leaves the
\* storage alone and hands out the stored conversation or nothing; delete of a
\* stored id returns true and removes it, delete of an unknown id returns false
\* and changes nothing
FindAndDeleteContract ==
    LET l == rp'.last
    IN  /\ l.op = "find" =>
              /\ storage' = storage
              /\ l.ok <=> l.id \in DOMAIN storage
              /\ l.ok => rp'.held[l.h] = storage[l.id]
              /\ ~l.ok => rp'.held[l.h] = rp.held[l.h]
        /\ l.op = "delete" =>
              /\ l.ok <=> l.id \in DOMAIN storage
              /\ l.id \notin DOMAIN storage'
              /\ DOMAIN storage' = DOMAIN storage \ {l.id}
              /\ \A i \in DOMAIN storage' : storage'[i] = storage[i]
              /\ ~l.ok => storage' = storage

\* what a successful save does to the id, in every implementation
SaveIdContract ==
    LET l == rp'.last
        c == SavedConversation
    IN  (l.op = "save" /\ l.ok) =>
            /\ c.id = 0 => l.id # 0 /\ l.id \notin DOMAIN storage
            /\ c.id # 0 => l.id = c.id
            /\ rp'.held[l.h].id = l.id
            /\ l.id \in DOMAIN storage'
            /\ storage'[l.id].id = l.id
            /\ \A i \in DOMAIN storage \ {l.id} :
                  i \in DOMAIN storage' /\ storage'[i] = storage[i]

\* C30 (as claimed): in every implementation a save that succeeds assigns an id
\* when there is none and keeps an existing one, and find_by_id then returns a
\* conversation with that id, the owner and the messages of the conversation
\* saved, in the same order; find_by_id and delete behave as FindAndDeleteContract
C30_SaveFindDelete ==
    [][RepositoryOperation =>
          /\ FindAndDeleteContract
          /\ SaveIdContract
          /\ (rp'.last.op = "save" /\ rp'.last.ok) =>
                /\ storage'[rp'.last.id].user_id = SavedConversation.user_id
                /\ storage'[rp'.last.id].messages = SavedConversation.messages]_vars

\* C30 (amended): as claimed for InMemoryRepository and FakeRepository; with
\* PostgresRepository save fails when the conversation has an id that is not
\* stored, and find_by_id after a successful save returns the owner and the
\* messages of the conversation saved when that conversation is new or has the
\* owner and extends the messages of the stored one
C30_SaveFindDeleteExtending ==
    [][RepositoryOperation =>
          /\ FindAndDeleteContract
          /\ SaveIdContract
          /\ (rp'.last.op = "save" /\ ~rp'.last.ok) =>
                /\ rp.kind = "postgres"
                /\ SavedConversation.id # 0
                /\ SavedConversation.id \notin DOMAIN storage
                /\ storage' = storage
          /\ (rp'.last.op = "save" /\ rp'.last.ok
                /\ (rp.kind = "postgres" => ExtendsStored(SavedConversation))) =>
                /\ storage'[rp'.last.id].user_id = SavedConversation.user_id
                /\ storage'[rp'.last.id].messages = SavedConversation.messages]_vars

C30_Witness ==
    /\ rp.kind = "postgres"
    /\ rp.last = [op |-> "save", h |-> "r1", id |-> 1, ok |-> TRUE]
    /\ Found(1)
    /\ Len(storage[1].messages) = 2
    /\ rp.held["r2"].id = 1
    /\ Len(rp.held["r2"].messages) = 1

(***************************************************************************)
(* Claims about the attempts of one generate_stream call.                  *)
(***************************************************************************)
\* the attempts of kind `kind` the log holds for `name`
AttemptsOn(attempts, name, kind) ==
    {i \in 1..Len(attempts) : attempts[i] = [model |-> name, kind |-> kind]}

\* C31: in a generate_stream call every backend of the chain gets at most one
\* native and at most one single-shot attempt, a single-shot attempt directly
\* follows the native attempt of the same backend (which has failed), a later
\* attempt is never on a backend that stands earlier in the chain, and the one
\* attempt in progress is the last of the log, every earlier one having ended
C31_OneAttemptAtATime ==
    \A c \in Call :
        LET g == gs[c]
            a == g.attempts
        IN  g.pc # "idle" =>
                /\ \A i \in 1..Len(a) : InSeq(a[i].model, g.chain)
                /\ \A i \in 1..Len(g.chain) :
                      /\ Cardinality(AttemptsOn(a, g.chain[i], "native")) <= 1
                      /\ Cardinality(AttemptsOn(a, g.chain[i], "single")) <= 1
                /\ \A i \in 1..Len(a) :
                      a[i].kind = "single" =>
                          i > 1 /\ a[i - 1] = [model |-> a[i].model, kind |-> "native"]
                /\ \A i, j \in 1..Len(a) :
                      i < j =>
                          \/ Pos(g.chain, a[i].model) < Pos(g.chain, a[j].model)
                          \/ /\ j = i + 1
                             /\ a[i].model = a[j].model
                             /\ a[i].kind = "native" /\ a[j].kind = "single"
                /\ g.pc = "native" =>
                      a # <<>> /\ a[Len(a)] = [model |-> Current(g), kind |-> "native"]
                /\ g.pc \in {"single", "sim"} =>
                      a # <<>> /\ a[Len(a)] = [model |-> Current(g), kind |-> "single"]
                /\ ~fallback_enabled => Len(a) = 1 /\ a[1].kind = "native"

C31_Witness ==
    \E c \in Call :
        /\ gs[c].pc = "sim"
        /\ Len(gs[c].chain) = 3
        /\ Len(gs[c].attempts) = 4
        /\ gs[c].idx = 3

\* C32 (as claimed): the chunks a call that returned normally has yielded all
\* come from one attempt, the one that succeeded
C32_OutputOfOneAttempt ==
    \A c \in Call :
        gs[c].pc = "returned" =>
            \A i \in 1..Len(gs[c].out) :
                /\ gs[c].out[i] = gs[c].out[1]
                /\ gs[c].out[i].model = gs[c].succeeded

\* the simulated attempt of call c is running or has completed the call
Simulating(g) ==
    \/ g.pc = "sim"
    \/ g.pc = "returned" /\ g.attempts[Len(g.attempts)].kind = "single"

\* C33: the chunks a simulated attempt has emitted, followed by those it has yet
\* to emit, concatenate to the non-empty single-shot response, and all of it is
\* emitted when the attempt completes; every emitted chunk but the last of the
\* response has exactly chunk_size characters and the last has 1..chunk_size;
\* a single-shot call ends either with a non-empty response whose first chunk
\* is emitted at once, or (empty response included) with nothing emitted and
\* the backend recorded as failed
C33_SimulatedChunksSplitResponse ==
    [][\A c \in Call :
          LET g == gs'[c]
              e == g.emitted
          IN  /\ Simulating(g) =>
                    /\ g.response # <<>>
                    /\ e # <<>>
                    /\ Concat(e) \o Concat(g.pending) = g.response
                    /\ g.pc = "returned" => Concat(e) = g.response
                    /\ \A i \in 1..Len(e) : Len(e[i]) \in 1..chunk_size
                    /\ \A i \in 1..Len(e) :
                          (i < Len(e) \/ g.pending # <<>>) => Len(e[i]) = chunk_size
              /\ (gs[c].pc = "single" /\ g.pc \notin {"single", "closed"}) =>
                    \/ /\ g.pc = "sim"
                       /\ Len(e) = 1
                       /\ g.out = Append(gs[c].out, [model |-> Current(g), kind |-> "single"])
                    \/ /\ SingleShotFails(c)
                       /\ g.out = gs[c].out
                       /\ g.emitted = gs[c].emitted
                       /\ Current(gs[c]) \in DOMAIN failed_models'
                       /\ failed_models'[Current(gs[c])] = now
              /\ (gs[c].pc = "sim" /\ g.pc = "sim" /\ g # gs[c]) =>
                    /\ Len(e) = Len(gs[c].emitted) + 1
                    /\ g.out = Append(gs[c].out, [model |-> Current(g), kind |-> "single"])]_vars

C33_Witness ==
    \E c \in Call :
        /\ gs[c].pc = "returned"
        /\ Len(gs[c].response) > chunk_size
        /\ Len(gs[c].emitted) = 2
        /\ Len(gs[c].emitted[2]) < chunk_size

(***************************************************************************)
(* Claims about what a streaming turn stores and announces.                *)
(***************************************************************************)
\* C34: the text accumulated by a streaming request is at every moment the
\* concatenation of the non-empty chunks it has yielded, in order, and the
\* assistant message a successful request has stored is that text, followed by
\* the truncation notice when the response was truncated and by nothing otherwise
C34_StoredTextIsYieldedText ==
    \A r \in Req :
        LET s == uc[r]
        IN  /\ s.response_buffer = Concat(s.emitted)
            /\ s.chunk_count = Len(s.emitted)
            /\ \A i \in 1..Len(s.emitted) : s.emitted[i] # <<>>
            /\ (s.pc = "done" /\ AssistantStored(r)) =>
                    LET m == Stored(r).messages[Len(Stored(r).messages)]
                    IN  /\ m.role = "assistant"
                        /\ m.content = Concat(s.emitted)
                                \o (IF s.response_truncated THEN TRUNCATION_NOTICE ELSE <<>>)

C34_Witness ==
    \E r \in Req :
        /\ uc[r].pc = "done"
        /\ AssistantStored(r)
        /\ uc[r].response_truncated
        /\ Len(uc[r].emitted) = 2
        /\ Len(uc[r].emitted[2]) < Len(uc[r].last.chunk)

\* request r made a save in this step; with one request at a time it is the
\* only writer of the repository
SavedInStep(r) == storage' # storage /\ uc'[r] # uc[r]

\* C35 (as claimed): within a request the id of its conversation, once assigned,
\* and the id announced never change; every save of the turn after the first
\* (assistant message or error marker) is made under the announced id, on the
\* conversation that holds the user message of the turn, and changes no other
\* conversation; the response opens with the announced id and its completion
\* event carries that id
C35_OneIdPerTurn ==
    [][\A r \in Req :
          LET s == uc'[r]
              events == sse'[r].events
          IN  /\ (s.n = uc[r].n /\ uc[r].conversation.id # 0) =>
                    s.conversation.id = uc[r].conversation.id
              /\ (s.n = uc[r].n /\ uc[r].announced # 0) =>
                    s.announced = uc[r].announced
              /\ s.announced # 0 => s.conversation.id = s.announced
              /\ \A id \in DOMAIN storage :
                    id \in DOMAIN storage' /\ storage'[id].id = storage[id].id
              /\ (SavedInStep(r) /\ uc[r].announced # 0) =>
                    /\ DOMAIN storage' = DOMAIN storage
                    /\ \A id \in DOMAIN storage \ {s.announced} :
                          storage'[id] = storage[id]
                    /\ Len(storage'[s.announced].messages) = s.base + 2
                    /\ storage'[s.announced].messages[s.base + 1] =
                          Message(s.message_content, "user")
                    /\ storage'[s.announced].messages[s.base + 2].role = "assistant"
              /\ (s.announced # 0 /\ s.pc = "announced") =>
                    events = <<[type |-> "metadata", data |-> IdText(s.announced)]>>
              /\ s.pc = "done" =>
                    events[Len(events)] = [type |-> "done", data |-> IdText(s.announced)]]_vars

\* the text of the chunk events sent, in order
RECURSIVE ChunkEvents(_)
ChunkEvents(events) ==
    IF events = <<>> THEN <<>>
    ELSE IF Head(events).type = "chunk"
         THEN <<Head(events).data>> \o ChunkEvents(Tail(events))
         ELSE ChunkEvents(Tail(events))

\* C37 (as claimed): whatever the chunks of the backend, the chunk events sent
\* carry exactly the chunks accepted into the accumulated response, in order,
\* and the completion event carries the id the conversation was saved under
C37_MarkerAndTextWhateverTheChunks ==
    \A r \in Req :
        /\ uc[r].pc \notin {"idle", "closed"} =>
              ChunkEvents(sse[r].events) = uc[r].emitted
        /\ uc[r].pc = "done" =>
              /\ Found(uc[r].announced)
              /\ sse[r].events[Len(sse[r].events)] =
                    [type |-> "done", data |-> IdText(uc[r].announced)]

(***************************************************************************)
(* Claims about ownership and about failed generation without streaming.   *)
(***************************************************************************)
\* C36 (as claimed): a conversation a request creates or appends to is owned by
\* the authenticated user of that request, and a request, streaming or not, that
\* names a stored conversation of another user is rejected at once: it raises,
\* the backend is not called and the repository is left as it was
C36_OnlyOwnerAppends ==
    [][\A r \in Req :
          LET s == uc'[r]
          IN  /\ uc'[r] # uc[r] =>
                    \A id \in DOMAIN storage' :
                        (id \notin DOMAIN storage \/ storage'[id] # storage[id]) =>
                            storage'[id].user_id = s.user_id
              /\ (s.n # uc[r].n
                    /\ s.conversation_id \in DOMAIN storage
                    /\ storage[s.conversation_id].user_id # s.user_id) =>
                    /\ s.pc \in {"raised", "pmRaised"}
                    /\ ~s.generate_called
                    /\ storage' = storage]_vars

\* C38: a non-streaming request makes no save before the backend has answered,
\* and when llm.generate raises the request ends with LLMError in a step that
\* leaves the repository as it was: no conversation is created, the stored
\* conversation it named (if any) still holds the messages it held before the
\* request, without the request's user message, and no id is returned
C38_FailedGenerationSavesNothing ==
    [][\A r \in Req :
          LET s == uc'[r]
          IN  /\ (s # uc[r] /\ s.pc = "pmGenerating") =>
                    /\ storage' = storage
                    /\ nextId' = nextId
              /\ (s # uc[r] /\ s.generate_raised) =>
                    /\ uc[r].pc = "pmGenerating"
                    /\ s.pc = "pmRaised"
                    /\ s.raised = "LLMError"
                    /\ s.announced = 0
                    /\ storage' = storage
                    /\ nextId' = nextId
                    /\ s.conversation.id # 0 =>
                          /\ s.conversation.id \in DOMAIN storage'
                          /\ Len(storage'[s.conversation.id].messages) = s.base
                          /\ Len(s.conversation.messages) = s.base + 1]_vars

C38_Witness ==
    \E r \in Req :
        /\ uc[r].generate_raised
        /\ uc[r].pc = "pmRaised"
        /\ uc[r].conversation.id = 1
        /\ Len(find_by_id(1).messages) = 2
        /\ Len(uc[r].conversation.messages) = 3

(***************************************************************************)
(* Claims about generate_stream without fallback, and about its end.       *)
(***************************************************************************)
\* C39: with fallback disabled a generate_stream call makes one native attempt
\* on the primary model and no other attempt, skips nothing, yields only chunks
\* of that attempt, ends by returning when the attempt succeeds and by raising
\* its error when it fails, and no step changes failed_models
C39_NoFallbackOneNativeAttempt ==
    [][~fallback_enabled =>
          /\ failed_models' = failed_models
          /\ failLedger' = failLedger
          /\ \A name \in Range(OptimizedChain) : ~should_skip_model(failed_models', name)
          /\ \A c \in Call :
                LET g == gs'[c]
                IN  g.pc # "idle" =>
                        /\ g.chain = <<model>>
                        /\ g.attempts = <<[model |-> model, kind |-> "native"]>>
                        /\ g.skipped = {}
                        /\ g.pc \in {"native", "returned", "raised", "closed"}
                        /\ g.emitted = <<>>
                        /\ \A i \in 1..Len(g.out) :
                              g.out[i] = [model |-> model, kind |-> "native"]
                        /\ g.pc = "returned" => g.succeeded = model /\ g.out # <<>>
                        /\ g.pc = "raised" =>
                              /\ g.succeeded = "none"
                              /\ g.error_models = <<>>
                              /\ g.last_error = model]_vars

C39_Witness ==
    \E c \in Call :
        /\ ~fallback_enabled
        /\ IsGpt5(model)
        /\ gs[c].pc = "raised"
        /\ gs[c].chunks_yielded = 1
        /\ now > 0

\* the "All models failed" error was raised to the caller of g
Exhausted(g) == g.pc = "raised" /\ g.error_models # <<>>

\* C40 (as claimed): a call whose backend calls terminate and whose consumer
\* keeps pulling ends by returning after a successful attempt or by raising the
\* "All models failed" error, and while it runs it never moves to an earlier
\* model of its chain
C40_EndsSucceededOrExhausted ==
    /\ \A c \in Call :
          GsActive(c) ~> (gs[c].pc = "returned" \/ Exhausted(gs[c]))
    /\ [][\A c \in Call :
              (GsActive(c) /\ gs'[c].pc # "idle") => gs'[c].idx >= gs[c].idx]_vars

\* C40 (amended): such a call ends by returning after a successful attempt, by
\* raising the "All models failed" error, which names its chain, or, when
\* fallback is disabled, by raising the error of its one native attempt; while
\* it runs it never moves to an earlier model of its chain
C40_EndsReturnedOrRaised ==
    /\ \A c \in Call :
          GsActive(c) ~> (gs[c].pc \in {"returned", "raised"})
    /\ [](\A c \in Call :
              /\ gs[c].pc = "returned" =>
                    gs[c].succeeded = gs[c].attempts[Len(gs[c].attempts)].model
              /\ gs[c].pc = "raised" =>
                    /\ gs[c].succeeded = "none"
                    /\ fallback_enabled <=> Exhausted(gs[c])
                    /\ fallback_enabled => gs[c].error_models = gs[c].chain)
    /\ [][\A c \in Call :
              (GsActive(c) /\ gs'[c].pc # "idle") => gs'[c].idx >= gs[c].idx]_vars

C40_Witness ==
    \E c \in Call :
        /\ Exhausted(gs[c])
        /\ Len(gs[c].chain) = 3
        /\ Len(gs[c].attempts) = 6
        /\ Len(gs[c].out) = 1

====
